---- MODULE Spec2Model ----
(***************************************************************************)
(* Model of the qwasm server's in-memory stores.                           *)
(*                                                                         *)
(* Node store (src/src/nodes.rs): a forest of LockedNode kept in two hash  *)
(* maps, `nodes` (id -> node) and `branches` (parent id -> child ids).     *)
(* A node's `content` and `dirty` fields are never read by the store and   *)
(* are left out; a node is represented by its parent_id.                   *)
(***************************************************************************)
EXTENDS Integers, Sequences, FiniteSets, TLC

\* ------------------------------------------------------------------ bounds
\* ordinary ids are 0..MaxId
MaxId == 2
\* add of an id that is already stored is offered only while the child lists
\* hold fewer than this many entries beyond one per stored node
MaxStale == 1
\* longest id list handed to delete_list
MaxList == 2

\* --------------------------------------------------------------- constants
\* const NO_PARENT_ID: u64 = u64::MAX (the all-ones word; ids are only ever
\* compared, so it is written as the two's complement reading of that word)
NO_PARENT_ID == -1

\* the ids nodes are added under
NodeId == 0 .. MaxId

\* the values of parent_id and of the arguments of delete, delete_list, move_to
Uid == NodeId \cup {NO_PARENT_ID}

VARIABLES
    nodes,      \* Nodes.nodes: [stored ids -> parent_id]
    branches,   \* Nodes.branches: [parent ids -> sequence of child ids]
    call,       \* the last call made on the store, with its arguments
    ret,        \* what that call returned
    pre,        \* the store as it was when that call was made
    shares,     \* State.shares: the Shares store (shares, invites, intents)
    users,      \* State.users: the Users store
    sessions,   \* State.sessions: the Sessions store (tokens)
    webauthn,   \* State.webauthn: the Webauthn store
    uploads,    \* State.uploads: the Uploads store
    reqs,       \* the requests being served: handler, arguments, position
    guards,     \* for each store's Mutex, the request holding its guard
    last        \* for each key of a one-shot map, the last request served on it

vars == <<nodes, branches, call, ret, pre,
          shares, users, sessions, webauthn, uploads, reqs, guards, last>>

\* everything but the node store and the record of the last call
notNodes == <<shares, users, sessions, webauthn, uploads, reqs, guards, last>>

\* ------------------------------------------------------- map/vector helpers
\* HashMap::remove
MapRemove(m, k) == [x \in (DOMAIN m) \ {k} |-> m[x]]

\* HashMap::insert
MapInsert(m, k, v) == [x \in (DOMAIN m) \cup {k} |-> IF x = k THEN v ELSE m[x]]

\* Vec::retain(|eid| *eid != id)
Retain(s, id) == SelectSeq(s, LAMBDA eid : eid # id)

\* branches.entry(parent).or_default().push(id)
EntryPush(bs, parent, id) ==
    IF parent \in DOMAIN bs
    THEN [bs EXCEPT ![parent] = Append(@, id)]
    ELSE MapInsert(bs, parent, <<id>>)

\* the parent's child list left as it was: no retain
RetainIn_kept(bs, parent, id) == bs

\* if let Some(parent) = branches.get_mut(&parent_id) { parent.retain(..) }
RetainIn(bs, parent, id) ==
    IF parent \in DOMAIN bs
    THEN [bs EXCEPT ![parent] = Retain(@, id)]
    ELSE bs

Store(ns, bs) == [nodes |-> ns, branches |-> bs]

\* ---------------------------------------------------------------- Nodes::add
add(ns, bs, id, parent) ==
    Store(MapInsert(ns, id, parent), EntryPush(bs, parent, id))

\* ------------------------------------------------------------- Nodes::delete
RECURSIVE delete(_, _, _)
RECURSIVE deleteChildren(_, _, _, _)

\* for child in children { deleted.extend(self.delete(child)); }
deleteChildren(ns, bs, children, deleted) ==
    IF children = <<>>
    THEN [nodes |-> ns, branches |-> bs, deleted |-> deleted]
    ELSE LET r == delete(ns, bs, Head(children))
         IN  deleteChildren(r.nodes, r.branches, Tail(children),
                            deleted \o r.deleted)

\* delete with the child list taken outside the `if let Some(node)`: an id that
\* is not stored still loses its child list and its children
delete_unguarded(ns, bs, id) ==
    LET ns1 == MapRemove(ns, id)
        bs1 == IF id \in DOMAIN ns THEN RetainIn(bs, ns[id], id) ELSE bs
        own == IF id \in DOMAIN ns THEN <<id>> ELSE <<>>
    IN  IF id \in DOMAIN bs1
        THEN deleteChildren(ns1, MapRemove(bs1, id), bs1[id], own)
        ELSE [nodes |-> ns1, branches |-> bs1, deleted |-> own]

delete(ns, bs, id) ==
    IF id \notin DOMAIN ns
    THEN [nodes |-> ns, branches |-> bs, deleted |-> <<>>]
    ELSE LET ns1 == MapRemove(ns, id)
             bs1 == RetainIn(bs, ns[id], id)
         IN  IF id \in DOMAIN bs1
             THEN deleteChildren(ns1, MapRemove(bs1, id), bs1[id], <<id>>)
             ELSE [nodes |-> ns1, branches |-> bs1, deleted |-> <<id>>]

\* -------------------------------------------------------- Nodes::delete_list
RECURSIVE flatMapDelete(_, _, _, _)
\* ids.iter().flat_map(|id| self.delete(*id)): the deletes run in list order,
\* each on the store the previous one left
flatMapDelete(ns, bs, ids, out) ==
    IF ids = <<>>
    THEN [nodes |-> ns, branches |-> bs, deleted |-> out]
    ELSE LET r == delete(ns, bs, Head(ids))
         IN  flatMapDelete(r.nodes, r.branches, Tail(ids), out \o r.deleted)

RECURSIVE filterSeen(_, _)
\* .filter(|uid| seen.insert(*uid)): keeps the first occurrence of each id
\* the filter with its test negated: .filter(|uid| !seen.insert(*uid))
filterSeen_negated(s, seen) ==
    IF s = <<>> THEN <<>>
    ELSE IF Head(s) \in seen
         THEN <<Head(s)>> \o filterSeen(Tail(s), seen)
         ELSE filterSeen(Tail(s), seen \cup {Head(s)})

filterSeen(s, seen) ==
    IF s = <<>> THEN <<>>
    ELSE IF Head(s) \in seen
         THEN filterSeen(Tail(s), seen)
         ELSE <<Head(s)>> \o filterSeen(Tail(s), seen \cup {Head(s)})

delete_list(ns, bs, ids) ==
    LET r == flatMapDelete(ns, bs, ids, <<>>)
    IN  [nodes |-> r.nodes, branches |-> r.branches,
         deleted |-> filterSeen(r.deleted, {})]

\* ------------------------------------------------------------ Nodes::move_to
Ok == [tag |-> "Ok"]
NotAllowed == [tag |-> "NotAllowed"]
NotFound(uid) == [tag |-> "NotFound", uid |-> uid]
\* the call never returns
Diverges == [tag |-> "Diverges"]
\* the upward walk left the loop: current reached NO_PARENT_ID
Top == [tag |-> "Top"]

RECURSIVE walk(_, _, _, _, _)
\* the while loop of move_to. The loop's only state is `current`, so meeting a
\* value of `current` a second time means the loop runs forever.
\* the loop without its `current == id` test
walk_nocycletest(ns, id, new_parent, current, visited) ==
    IF current = NO_PARENT_ID THEN Top
    ELSE IF current \in visited THEN Diverges
    ELSE IF current \in DOMAIN ns
         THEN walk(ns, id, new_parent, ns[current], visited \cup {current})
         ELSE NotFound(new_parent)

\* the loop reporting the id it failed to find instead of new_parent
walk_reportcurrent(ns, id, new_parent, current, visited) ==
    IF current = NO_PARENT_ID THEN Top
    ELSE IF current = id THEN NotAllowed
    ELSE IF current \in visited THEN Diverges
    ELSE IF current \in DOMAIN ns
         THEN walk(ns, id, new_parent, ns[current], visited \cup {current})
         ELSE NotFound(current)

walk(ns, id, new_parent, current, visited) ==
    IF current = NO_PARENT_ID THEN Top
    ELSE IF current = id THEN NotAllowed
    ELSE IF current \in visited THEN Diverges
    ELSE IF current \in DOMAIN ns
         THEN walk(ns, id, new_parent, ns[current], visited \cup {current})
         ELSE NotFound(new_parent)

\* the move without the push onto the new parent's child list
reparent_nopush(ns, bs, id, new_parent) ==
    IF id \in DOMAIN ns
    THEN IF ns[id] = new_parent
         THEN [nodes |-> ns, branches |-> bs, result |-> NotAllowed]
         ELSE [nodes |-> [ns EXCEPT ![id] = new_parent],
               branches |-> RetainIn(bs, ns[id], id),
               result |-> Ok]
    ELSE [nodes |-> ns, branches |-> bs, result |-> NotFound(id)]

\* the move without the `node.parent_id == new_parent` test
reparent_nosametest(ns, bs, id, new_parent) ==
    IF id \in DOMAIN ns
    THEN [nodes |-> [ns EXCEPT ![id] = new_parent],
          branches |-> EntryPush(RetainIn(bs, ns[id], id), new_parent, id),
          result |-> Ok]
    ELSE [nodes |-> ns, branches |-> bs, result |-> NotFound(id)]

\* the move reporting new_parent instead of id when id is not stored
reparent_reportparent(ns, bs, id, new_parent) ==
    IF id \in DOMAIN ns
    THEN IF ns[id] = new_parent
         THEN [nodes |-> ns, branches |-> bs, result |-> NotAllowed]
         ELSE [nodes |-> [ns EXCEPT ![id] = new_parent],
               branches |-> EntryPush(RetainIn(bs, ns[id], id), new_parent, id),
               result |-> Ok]
    ELSE [nodes |-> ns, branches |-> bs, result |-> NotFound(new_parent)]

\* the part of move_to after the loop
reparent(ns, bs, id, new_parent) ==
    IF id \in DOMAIN ns
    THEN IF ns[id] = new_parent
         THEN [nodes |-> ns, branches |-> bs, result |-> NotAllowed]
         ELSE [nodes |-> [ns EXCEPT ![id] = new_parent],
               branches |-> EntryPush(RetainIn(bs, ns[id], id), new_parent, id),
               result |-> Ok]
    ELSE [nodes |-> ns, branches |-> bs, result |-> NotFound(id)]

\* move_to without its first test, `new_parent == NO_PARENT_ID`
move_to_notoptest(ns, bs, id, new_parent) ==
    LET w == walk(ns, id, new_parent, new_parent, {})
    IN  IF w = Top
        THEN reparent(ns, bs, id, new_parent)
        ELSE [nodes |-> ns, branches |-> bs, result |-> w]

move_to(ns, bs, id, new_parent) ==
    IF new_parent = NO_PARENT_ID
    THEN [nodes |-> ns, branches |-> bs, result |-> NotAllowed]
    ELSE LET w == walk(ns, id, new_parent, new_parent, {})
         IN  IF w = Top
             THEN reparent(ns, bs, id, new_parent)
             ELSE [nodes |-> ns, branches |-> bs, result |-> w]

\* ------------------------------------------------------- the other stores
\* requests served at the same time
MaxReq == 2

\* Option<T>
None == [tag |-> "None"]
Some(x) == [tag |-> "Some", v |-> x]

\* bool results
Bool(b) == [tag |-> "Bool", v |-> b]

\* Shares::new()
SharesNew == [shares |-> <<>>, invites |-> <<>>, intents |-> <<>>]

\* Users::new()
UsersNew == [credentials |-> <<>>, public_keys |-> <<>>, private_keys |-> <<>>]

\* Sessions::new()
SessionsNew == [tokens |-> <<>>]

\* Webauthn::new()
WebauthnNew ==
    [pending_registrations |-> <<>>, auth_challenges |-> <<>>, passkeys |-> <<>>]

\* Uploads::new()
UploadsNew == [uploads |-> <<>>]

\* the Mutex-wrapped fields of State
StoreNames ==
    {"nodes", "shares", "users", "sessions", "webauthn", "s3_client", "uploads"}

\* the tasks serving requests
Req == 1 .. MaxReq

\* a task that serves no request
Idle == [h |-> "idle"]

\* no task holds the guard
Free == 0

\* State::new(): every store empty, every Mutex unlocked, no request in
\* service
InitServer ==
    /\ shares = SharesNew
    /\ users = UsersNew
    /\ sessions = SessionsNew
    /\ webauthn = WebauthnNew
    /\ uploads = UploadsNew
    /\ reqs = [r \in Req |-> Idle]
    /\ guards = [s \in StoreNames |-> Free]

\* ------------------------------------------------------------ state machine
\* number of entries over all child lists
RECURSIVE SumLen(_, _)
SumLen(bs, keys) ==
    IF keys = {} THEN 0
    ELSE LET k == CHOOSE x \in keys : TRUE
         IN  Len(bs[k]) + SumLen(bs, keys \ {k})

Entries(bs) == SumLen(bs, DOMAIN bs)

\* child-list entries beyond one per stored node (stale or repeated entries)
Surplus(ns, bs) == Entries(bs) - Cardinality(DOMAIN ns)

\* id lists of length 0..MaxList
IdLists == UNION {[1 .. n -> Uid] : n \in 0 .. MaxList}

\* no call is in progress and the last result has been handed to the caller
NoCall == [name |-> "none"]
Unit == [tag |-> "Unit"]

\* Nodes::new()
InitNodes ==
    /\ nodes = <<>>
    /\ branches = <<>>
    /\ call = NoCall
    /\ ret = Unit
    /\ pre = Store(<<>>, <<>>)
    /\ InitServer
    /\ last = <<>>

\* the store is behind one `&mut self` borrow: a call starts only when no other
\* call is in progress
Add ==
    /\ call = NoCall
    /\ \E id \in NodeId, parent \in Uid :
         LET r == add(nodes, branches, id, parent)
         IN  /\ id \in DOMAIN nodes => Surplus(nodes, branches) < MaxStale
             /\ nodes' = r.nodes
             /\ branches' = r.branches
             /\ call' = [name |-> "add", id |-> id, parent_id |-> parent]
             /\ ret' = Unit
             /\ pre' = Store(nodes, branches)
             /\ UNCHANGED notNodes

\* the ids that deletes have removed, kept in a note where a run opens one
Remember(deleted) ==
    last' = IF "removed" \in DOMAIN last
            THEN [last EXCEPT !.removed =
                     @ \cup {deleted[i] : i \in 1 .. Len(deleted)}]
            ELSE last

Delete ==
    /\ call = NoCall
    /\ \E id \in Uid :
         LET r == delete(nodes, branches, id)
         IN  /\ nodes' = r.nodes
             /\ branches' = r.branches
             /\ call' = [name |-> "delete", id |-> id]
             /\ ret' = [tag |-> "Vec", ids |-> r.deleted]
             /\ pre' = Store(nodes, branches)
             /\ Remember(r.deleted)
             /\ UNCHANGED <<shares, users, sessions, webauthn, uploads,
                            reqs, guards>>

DeleteList ==
    /\ call = NoCall
    /\ \E ids \in IdLists :
         LET r == delete_list(nodes, branches, ids)
         IN  /\ nodes' = r.nodes
             /\ branches' = r.branches
             /\ call' = [name |-> "delete_list", ids |-> ids]
             /\ ret' = [tag |-> "Vec", ids |-> r.deleted]
             /\ pre' = Store(nodes, branches)
             /\ Remember(r.deleted)
             /\ UNCHANGED <<shares, users, sessions, webauthn, uploads,
                            reqs, guards>>

MoveTo ==
    /\ call = NoCall
    /\ \E id \in Uid, new_parent \in Uid :
         LET r == move_to(nodes, branches, id, new_parent)
         IN  /\ nodes' = r.nodes
             /\ branches' = r.branches
             /\ call' = [name |-> "move_to", id |-> id, new_parent |-> new_parent]
             /\ ret' = r.result
             /\ pre' = Store(nodes, branches)
             /\ UNCHANGED notNodes

\* the call returns to its caller, which drops the result; a call whose loop
\* never ends does not return, and nothing runs on the store after it
Return ==
    /\ call # NoCall
    /\ ret # Diverges
    /\ call' = NoCall
    /\ ret' = Unit
    /\ pre' = Store(nodes, branches)
    /\ UNCHANGED <<nodes, branches>>
    /\ UNCHANGED notNodes

NextNodes == Add \/ Delete \/ DeleteList \/ MoveTo \/ Return

SpecNodes == InitNodes /\ [][NextNodes]_vars

\* ---------------------------------------------------- vocabulary of the claims
\* the elements of a sequence
Range(s) == {s[i] : i \in 1 .. Len(s)}

NoDuplicates(s) == Cardinality(Range(s)) = Len(s)

RECURSIVE ChainFrom(_, _, _)
\* the ids met by following parent_id upward from `from`, in order, `from`
\* first: the walk ends with NO_PARENT_ID (a root was passed), with an id that
\* is not stored, or with the first id met a second time
ChainFrom(ns, from, met) ==
    IF from = NO_PARENT_ID \/ from \notin DOMAIN ns \/ from \in met
    THEN <<from>>
    ELSE <<from>> \o ChainFrom(ns, ns[from], met \cup {from})

Chain(ns, from) == ChainFrom(ns, from, {})

Last(s) == s[Len(s)]

\* the walk from `from` passes only stored nodes and ends above a root
ReachesTop(ns, from) == Last(Chain(ns, from)) = NO_PARENT_ID

\* the ids above stored node n: its parent, its parent's parent, ... ;
\* parent_id = NO_PARENT_ID marks a root, which has nothing above it
Ancestors(ns, n) ==
    IF n \notin DOMAIN ns THEN {}
    ELSE Range(Chain(ns, ns[n])) \ {NO_PARENT_ID}

\* n is reachable from itself by following parent_id
OwnAncestor(ns, n) == n \in Ancestors(ns, n)

\* id and every stored node whose parent_id chain passes through id
Descendants(ns, id) == {id} \cup {n \in DOMAIN ns : id \in Ancestors(ns, n)}

Unchanged == nodes = pre.nodes /\ branches = pre.branches

\* ----------------------------------------------------------------- claims
\* C1: in every reachable store state no stored node is reachable from itself
\* by repeatedly following parent_id.
C1_Acyclic == \A n \in DOMAIN nodes : ~OwnAncestor(nodes, n)

\* C2: in every reachable store state each stored node n has parent_id =
\* NO_PARENT_ID, or branches has the key n.parent_id and that child list
\* contains n.
C2_ParentIndexed ==
    \A n \in DOMAIN nodes :
        \/ nodes[n] = NO_PARENT_ID
        \/ /\ nodes[n] \in DOMAIN branches
           /\ n \in Range(branches[nodes[n]])

\* C2 witness: a move has just taken a stored node from one stored parent to
\* another
C2_Witness ==
    /\ call.name = "move_to"
    /\ ret = Ok
    /\ pre.nodes[call.id] \in DOMAIN nodes
    /\ nodes[call.id] \in DOMAIN nodes

\* ---- delete
\* position of the first occurrence of x in s (0 when x does not occur)
IndexOf(s, x) ==
    IF x \in Range(s) THEN CHOOSE i \in 1 .. Len(s) : s[i] = x /\ \A j \in 1 .. i - 1 : s[j] # x
    ELSE 0

\* the parent_id chain of stored node n passes through id (read literally: the
\* chain is the sequence of parent_id values met going up from n)
PassesThrough(ns, n, id) == n \in DOMAIN ns /\ id \in Range(Chain(ns, ns[n]))

Subtree(ns, id) == {id} \cup {n \in DOMAIN ns : PassesThrough(ns, n, id)}

\* s lists nodes of store (ns, bs) in pre-order: a parent before its children,
\* a node's whole subtree before its next sibling, siblings in child-list order
IsPreOrder(ns, bs, s) ==
    /\ NoDuplicates(s)
    /\ \A k \in 2 .. Len(s) : \E i \in 1 .. k - 1 : ns[s[k]] = s[i]
    /\ \A i, j, k \in 1 .. Len(s) :
         (i < j /\ j < k /\ PassesThrough(ns, s[k], s[i])) => PassesThrough(ns, s[j], s[i])
    /\ \A i, j \in 2 .. Len(s) :
         (i < j /\ ns[s[i]] = ns[s[j]] /\ ns[s[i]] \in DOMAIN bs)
             => IndexOf(bs[ns[s[i]]], s[i]) < IndexOf(bs[ns[s[i]]], s[j])

\* C3: delete(id) for a stored id returns exactly id together with every stored
\* node whose parent_id chain passes through id, and no other node, in
\* pre-order, and removes exactly those nodes from the store.
C3_DeleteSubtree ==
    (call.name = "delete" /\ call.id \in DOMAIN pre.nodes) =>
        /\ Range(ret.ids) = Subtree(pre.nodes, call.id)
        /\ ret.ids[1] = call.id
        /\ IsPreOrder(pre.nodes, pre.branches, ret.ids)
        /\ DOMAIN nodes = (DOMAIN pre.nodes) \ Subtree(pre.nodes, call.id)
        /\ \A n \in DOMAIN nodes : nodes[n] = pre.nodes[n]

\* C4: delete(id) for an id that is not stored returns the empty list and leaves
\* nodes and branches unchanged, also when the id is only referenced as the
\* parent of orphan nodes; and a second delete(id) right after a first one
\* returns [] and changes nothing.
C4_DeleteMissing ==
    /\ (call.name = "delete" /\ call.id \notin DOMAIN pre.nodes) =>
           (ret.ids = <<>> /\ Unchanged)
    /\ call.name = "delete" =>
           LET again == delete(nodes, branches, call.id)
           IN  /\ again.deleted = <<>>
               /\ again.nodes = nodes
               /\ again.branches = branches

\* C4 witness: delete was called with an id that is not stored but has a child
\* list holding a stored orphan
C4_Witness ==
    /\ call.name = "delete"
    /\ call.id \notin DOMAIN pre.nodes
    /\ call.id \in DOMAIN pre.branches
    /\ \E n \in DOMAIN nodes : nodes[n] = call.id /\ n \in Range(branches[call.id])

\* ---- delete_list
RECURSIVE KeepFirst(_, _)
\* s without the elements that already occur earlier in s
KeepFirst(s, i) ==
    IF i > Len(s) THEN <<>>
    ELSE (IF \E j \in 1 .. i - 1 : s[j] = s[i] THEN <<>> ELSE <<s[i]>>)
         \o KeepFirst(s, i + 1)

RECURSIVE ConcatDeletes(_, _, _)
\* what delete(x) returns on store (ns, bs), for each x of ids, concatenated
ConcatDeletes(ns, bs, ids) ==
    IF ids = <<>> THEN <<>>
    ELSE delete(ns, bs, Head(ids)).deleted \o ConcatDeletes(ns, bs, Tail(ids))

RECURSIVE DeleteEach(_, _, _)
\* the store after delete(x) for each x of ids, one after the other
DeleteEach(ns, bs, ids) ==
    IF ids = <<>> THEN Store(ns, bs)
    ELSE LET r == delete(ns, bs, Head(ids))
         IN  DeleteEach(r.nodes, r.branches, Tail(ids))

\* C5: delete_list(L) returns the first-occurrence deduplication of the
\* concatenation, for x in L in order, of what delete(x) returns on the store
\* before the call; the result has no duplicates, absent ids of L contribute
\* nothing, and the final store is the store after deleting every x of L.
C5_DeleteList ==
    call.name = "delete_list" =>
        /\ ret.ids = KeepFirst(ConcatDeletes(pre.nodes, pre.branches, call.ids), 1)
        /\ NoDuplicates(ret.ids)
        /\ \A x \in Range(call.ids) : x \notin DOMAIN pre.nodes => x \notin Range(ret.ids)
        /\ ret.ids = delete_list(pre.nodes, pre.branches,
                         SelectSeq(call.ids, LAMBDA x : x \in DOMAIN pre.nodes)).deleted
        /\ Store(nodes, branches) = DeleteEach(pre.nodes, pre.branches, call.ids)

\* C5 witness: delete_list was given a node and then one of its ancestors, so
\* the ancestor's own delete would list the node again
C5_Witness ==
    /\ call.name = "delete_list"
    /\ Len(call.ids) = 2
    /\ call.ids[1] # call.ids[2]
    /\ call.ids[1] \in DOMAIN pre.nodes
    /\ call.ids[2] \in DOMAIN pre.nodes
    /\ call.ids[1] \in Range(delete(pre.nodes, pre.branches, call.ids[2]).deleted)
    /\ Len(ret.ids) = 3

\* ---- move_to
\* the stored nodes whose parent_id is NO_PARENT_ID
Roots(ns) == {n \in DOMAIN ns : ns[n] = NO_PARENT_ID}

\* C6: move_to(id, new_parent) returns NotAllowed and leaves the store unchanged
\* whenever new_parent = id or id is an ancestor of new_parent; a move_to that
\* returns Ok makes no node its own ancestor.
C6_NoCycleByMove ==
    call.name = "move_to" =>
        /\ (call.new_parent = call.id \/ call.id \in Ancestors(pre.nodes, call.new_parent))
               => (ret = NotAllowed /\ Unchanged)
        /\ ret = Ok =>
               \A n \in DOMAIN nodes : OwnAncestor(nodes, n) => OwnAncestor(pre.nodes, n)

\* C6 witness: move_to was asked to put a stored node under its own grandchild
C6_Witness ==
    /\ call.name = "move_to"
    /\ call.id \in DOMAIN pre.nodes
    /\ call.new_parent \in DOMAIN pre.nodes
    /\ call.new_parent # call.id
    /\ pre.nodes[call.new_parent] # call.id
    /\ call.id \in Ancestors(pre.nodes, call.new_parent)
    /\ ret = NotAllowed

\* C7: move_to(x, NO_PARENT_ID) returns NotAllowed for every x and leaves the
\* store unchanged; no move_to sets a parent_id to NO_PARENT_ID or increases
\* the number of root nodes.
C7_NoMoveToTop ==
    call.name = "move_to" =>
        /\ call.new_parent = NO_PARENT_ID => (ret = NotAllowed /\ Unchanged)
        /\ \A n \in DOMAIN nodes :
               nodes[n] = NO_PARENT_ID => (n \in DOMAIN pre.nodes /\ pre.nodes[n] = NO_PARENT_ID)
        /\ Cardinality(Roots(nodes)) <= Cardinality(Roots(pre.nodes))

\* C7 witness: move_to was asked to make a stored non-root node a root
C7_Witness ==
    /\ call.name = "move_to"
    /\ call.new_parent = NO_PARENT_ID
    /\ call.id \in DOMAIN pre.nodes
    /\ pre.nodes[call.id] # NO_PARENT_ID
    /\ ret = NotAllowed

\* move_to(id, p) was called with p the current parent_id of stored node id
ToOwnParent ==
    /\ call.name = "move_to"
    /\ call.id \in DOMAIN pre.nodes
    /\ pre.nodes[call.id] = call.new_parent
    /\ call.new_parent # NO_PARENT_ID

\* C8 as stated: move_to(id, p), p being the current parent_id of stored node
\* id and not NO_PARENT_ID, returns NotAllowed and leaves the store unchanged.
C8_MoveToOwnParent == ToOwnParent => (ret = NotAllowed /\ Unchanged)

\* C8 amended: move_to(id, p), p being the current parent_id of stored node id
\* and not NO_PARENT_ID, returns NotAllowed and leaves the store unchanged when
\* the upward walk from p reaches id or NO_PARENT_ID through stored nodes only.
C8_MoveToOwnParentAttached ==
    (/\ ToOwnParent
     /\ \/ ReachesTop(pre.nodes, call.new_parent)
        \/ call.id \in Range(Chain(pre.nodes, call.new_parent)))
        => (ret = NotAllowed /\ Unchanged)

\* C8 witness: move_to was asked to put a node under the stored parent it
\* already has, below a root
C8_Witness ==
    /\ ToOwnParent
    /\ call.new_parent \in DOMAIN pre.nodes
    /\ ReachesTop(pre.nodes, call.new_parent)
    /\ ret = NotAllowed

\* the upward walk from new_parent meets an id that is not stored before it
\* meets id or NO_PARENT_ID
MeetsAbsentFirst ==
    /\ call.name = "move_to"
    /\ call.new_parent # NO_PARENT_ID
    /\ LET c == Chain(pre.nodes, call.new_parent)
       IN  /\ Last(c) # NO_PARENT_ID
           /\ Last(c) \notin DOMAIN pre.nodes
           /\ call.id \notin Range(c)

\* C9: when the upward walk from new_parent meets an id absent from the node
\* map before it meets id or NO_PARENT_ID, move_to returns
\* NotFound(new_parent), not the missing ancestor, and leaves the store
\* unchanged.
C9_NotFoundNewParent ==
    MeetsAbsentFirst => (ret = NotFound(call.new_parent) /\ Unchanged)

\* C9 witness: a stored node was to be moved under a stored node whose own
\* parent is not stored
C9_Witness ==
    /\ MeetsAbsentFirst
    /\ call.id \in DOMAIN pre.nodes
    /\ call.new_parent \in DOMAIN pre.nodes
    /\ ret = NotFound(call.new_parent)

\* C10: when id is not stored and the upward walk from new_parent reaches
\* NO_PARENT_ID through stored nodes only, move_to returns NotFound(id) and
\* leaves the store unchanged.
C10_NotFoundId ==
    (/\ call.name = "move_to"
     /\ call.id \notin DOMAIN pre.nodes
     /\ call.new_parent \in DOMAIN pre.nodes
     /\ ReachesTop(pre.nodes, call.new_parent))
        => (ret = NotFound(call.id) /\ Unchanged)

\* C10 witness: a node that is not stored was to be moved under a stored node
\* that sits below a root
C10_Witness ==
    /\ call.name = "move_to"
    /\ call.id \notin DOMAIN pre.nodes
    /\ call.id # NO_PARENT_ID
    /\ call.new_parent \in DOMAIN pre.nodes
    /\ pre.nodes[call.new_parent] # NO_PARENT_ID
    /\ ReachesTop(pre.nodes, call.new_parent)
    /\ ret = NotFound(call.id)

\* ------------------------------------------------------------------ C11
\* number of positions of s that hold x
Count(s, x) == Cardinality({i \in 1 .. Len(s) : s[i] = x})

\* the last call was a move_to that returned Ok
MovedOk == call.name = "move_to" /\ ret = Ok

\* C11: when move_to(id, new_parent) returns Ok, afterwards id.parent_id is
\* new_parent, new_parent's child list holds id exactly once and as its last
\* element, the child list of id's former parent no longer holds id, and every
\* other node and every other child list is as it was before the call; being
\* an invariant of every reachable state, it covers any number of successive
\* moves.
C11_MoveFrame ==
    MovedOk =>
        LET id == call.id
            new_parent == call.new_parent
            old == pre.nodes[id]
        IN  /\ nodes[id] = new_parent
            /\ new_parent \in DOMAIN branches
            /\ Len(branches[new_parent]) > 0
            /\ Last(branches[new_parent]) = id
            /\ Count(branches[new_parent], id) = 1
            /\ old \in DOMAIN branches => id \notin Range(branches[old])
            /\ DOMAIN nodes = DOMAIN pre.nodes
            /\ \A n \in DOMAIN nodes \ {id} : nodes[n] = pre.nodes[n]
            /\ DOMAIN pre.branches \subseteq DOMAIN branches
            /\ \A k \in DOMAIN branches \ {new_parent, old} :
                 k \in DOMAIN pre.branches /\ branches[k] = pre.branches[k]

\* ------------------------------------------------------------ share store
\* (src/src/shares.rs) A LockedShare is represented by its sender and its
\* export.receiver, an Invite by its email and sender, an InviteIntent by its
\* email, sender and receiver; the store reads no other field of them.
\* An identity::Public is represented by its id field.

\* emails are 1..MaxEmail
MaxEmail == 2
\* public identities have ids 1..MaxPub
MaxPub == 2
\* add_share is offered while the share list is shorter than this
MaxShares == 2

Email == 1 .. MaxEmail
UserId == 1 .. MaxPub
Pubs == [id : UserId]
Options(S) == {None} \cup {Some(x) : x \in S}
InviteIntents == [email : Email, sender : Pubs, receiver : Options(Pubs)]
LockedShares == [sender : Pubs, receiver : UserId]
Invites == [email : Email, sender : Pubs]

\* HashMap::get
MapGet(m, k) == IF k \in DOMAIN m THEN Some(m[k]) ELSE None

add_share(s, share) == [s EXCEPT !.shares = Append(@, share)]

\* a listing of the shares the user sent only
all_shares_sent_by(s, user_id) ==
    SelectSeq(s.shares, LAMBDA sh : sh.sender.id = user_id)

\* Shares::all_shares_for_user
all_shares_for_user(s, user_id) ==
    SelectSeq(s.shares,
              LAMBDA sh : sh.sender.id = user_id \/ sh.receiver = user_id)

add_invite(s, invite) ==
    [s EXCEPT !.invites = MapInsert(@, invite.email, invite)]

add_invite_intent(s, intent) ==
    [s EXCEPT !.intents = MapInsert(@, intent.email, intent)]

\* a delete_invite_intent that removes nothing
delete_invite_intent_kept(s, email) == [store |-> s, result |-> None]

delete_invite_intent(s, email) ==
    [store |-> [s EXCEPT !.intents = MapRemove(@, email)],
     result |-> MapGet(s.intents, email)]

\* ack_invite_intent without the `intent.receiver.is_none()` test
ack_invite_intent_always(s, email, pk) ==
    IF email \in DOMAIN s.intents
    THEN [store |-> [s EXCEPT !.intents[email].receiver = Some(pk)],
          result |-> TRUE]
    ELSE [store |-> s, result |-> FALSE]

ack_invite_intent(s, email, pk) ==
    IF email \in DOMAIN s.intents
    THEN IF s.intents[email].receiver = None
         THEN [store |-> [s EXCEPT !.intents[email].receiver = Some(pk)],
               result |-> TRUE]
         ELSE [store |-> s, result |-> FALSE]
    ELSE [store |-> s, result |-> FALSE]

\* a delete_invite that removes nothing
delete_invite_kept(s, email) == s

delete_invite(s, email) == [s EXCEPT !.invites = MapRemove(@, email)]

\* everything but the share store and the record of the last call
notShares == <<nodes, branches, users, sessions, webauthn, uploads, reqs, guards, last>>

\* Shares::new(), behind one `&mut self` borrow: the calls come one at a time
InitShareStore ==
    /\ nodes = <<>>
    /\ branches = <<>>
    /\ call = NoCall
    /\ ret = Unit
    /\ pre = SharesNew
    /\ InitServer
    /\ last = <<>>

AddShare ==
    \E share \in LockedShares :
        /\ Len(shares.shares) < MaxShares
        /\ shares' = add_share(shares, share)
        /\ call' = [name |-> "add_share", share |-> share]
        /\ ret' = Unit
        /\ pre' = shares
        /\ UNCHANGED notShares

AddInvite ==
    \E invite \in Invites :
        /\ shares' = add_invite(shares, invite)
        /\ call' = [name |-> "add_invite", invite |-> invite]
        /\ ret' = Unit
        /\ pre' = shares
        /\ UNCHANGED notShares

AddInviteIntent ==
    \E intent \in InviteIntents :
        /\ shares' = add_invite_intent(shares, intent)
        /\ call' = [name |-> "add_invite_intent", intent |-> intent]
        /\ ret' = Unit
        /\ pre' = shares
        /\ UNCHANGED notShares

DeleteInviteIntent ==
    \E email \in Email :
        LET r == delete_invite_intent(shares, email)
        IN  /\ shares' = r.store
            /\ call' = [name |-> "delete_invite_intent", email |-> email]
            /\ ret' = r.result
            /\ pre' = shares
            /\ UNCHANGED notShares

AckInviteIntent ==
    \E email \in Email, pk \in Pubs :
        LET r == ack_invite_intent(shares, email, pk)
        IN  /\ shares' = r.store
            /\ call' = [name |-> "ack_invite_intent", email |-> email, pk |-> pk]
            /\ ret' = Bool(r.result)
            /\ pre' = shares
            /\ UNCHANGED notShares

DeleteInvite ==
    \E email \in Email :
        /\ shares' = delete_invite(shares, email)
        /\ call' = [name |-> "delete_invite", email |-> email]
        /\ ret' = Unit
        /\ pre' = shares
        /\ UNCHANGED notShares

AllSharesForUser ==
    \E user_id \in UserId :
        /\ call' = [name |-> "all_shares_for_user", user_id |-> user_id]
        /\ ret' = all_shares_for_user(shares, user_id)
        /\ pre' = shares
        /\ UNCHANGED shares
        /\ UNCHANGED notShares

NextShareStore ==
    \/ AddShare
    \/ AddInvite
    \/ AddInviteIntent
    \/ DeleteInviteIntent
    \/ AckInviteIntent
    \/ DeleteInvite
    \/ AllSharesForUser

SpecShareStore == InitShareStore /\ [][NextShareStore]_vars

\* ------------------------------------------------------------------ C12
\* the last call on the share store was ack_invite_intent
AckCall == call.name = "ack_invite_intent"

\* the intent stored for the email of the last call had no receiver
Unacknowledged ==
    /\ call.email \in DOMAIN pre.intents
    /\ pre.intents[call.email].receiver = None

\* C12: ack_invite_intent(e, pk) on an intent whose receiver is None stores
\* Some(pk) and returns true; on an intent that already has a receiver, or
\* when no intent is stored for e, it returns false and leaves the share
\* store as it was. And a call ack(e, pk2) that comes right after a call
\* ack(e, pk1) that returned true returns false, the stored receiver still
\* being pk1.
C12_AckOnce ==
    /\ [](AckCall =>
            IF Unacknowledged
            THEN /\ ret = Bool(TRUE)
                 /\ shares = [pre EXCEPT
                                !.intents[call.email].receiver = Some(call.pk)]
            ELSE /\ ret = Bool(FALSE)
                 /\ shares = pre)
    /\ [][(/\ AckCall
           /\ ret = Bool(TRUE)
           /\ AckCall'
           /\ call'.email = call.email)
              => (/\ ret' = Bool(FALSE)
                  /\ shares'.intents[call.email].receiver = Some(call.pk))]_vars

\* C12 witness: an ack with another key on an intent that already has a
\* receiver returned false and the receiver is the one stored before
C12_Witness ==
    /\ AckCall
    /\ call.email \in DOMAIN pre.intents
    /\ pre.intents[call.email].receiver \notin {None, Some(call.pk)}
    /\ ret = Bool(FALSE)
    /\ shares.intents[call.email].receiver = pre.intents[call.email].receiver

\* --------------------------------------------- sharing requests (main.rs)
\* Each of start_invite_intent, signup and finish_invite_intents_if_any takes
\* every guard it uses before it touches a store and drops them when it
\* returns, so what it does to the stores is one step. purge locks, empties
\* and unlocks one store after the other, and other requests run in between.
\* `call` and `ret` record the last step made on the stores and its response;
\* `pre` is not used.

\* longest list of roots or of shares in a signup, and of finished intents
MaxBatch == 1
\* purge requests in service at the same time
MaxPurges == 1

\* Users::add_priv
add_priv(u, id, priv) ==
    [u EXCEPT !.private_keys = MapInsert(@, id, priv)]

\* Users::add_pub
add_pub(u, id, pub) ==
    [u EXCEPT !.public_keys = MapInsert(@, id, pub)]

\* Users::add_credentials
add_credentials(u, email, id) ==
    [u EXCEPT !.credentials = MapInsert(@, email, id)]

\* StatusCode of a response
Created == [tag |-> "Created"]
StatusOk == [tag |-> "OK"]

\* lists over S of length 0..MaxBatch
Batches(S) == UNION {[1 .. n -> S] : n \in 0 .. MaxBatch}

\* the shares posted in a signup or with a finished intent: to every
\* receiver, from one sender
SentShares == {sh \in LockedShares : sh.sender.id = 1}

\* the root nodes a signup brings
SignupRoots == [id : {0}, parent_id : {NO_PARENT_ID}]

\* the password-locked private key of a signup
LockedPriv == "encrypted_priv"

\* Signup.user
LockedUsers ==
    [_pub : Pubs, roots : Batches(SignupRoots), shares : Batches(SentShares)]

FinishInviteIntents == [email : Email, share : SentShares]

\* the intents posted to start_invite_intent: every email and every receiver
\* a client can put in the body, from one sender
StartedIntents == {i \in InviteIntents : i.sender.id = 1}

\* user.roots.iter().for_each(|node| nodes.add(node.clone()))
RECURSIVE addEach(_, _, _)
addEach(ns, bs, roots) ==
    IF roots = <<>> THEN Store(ns, bs)
    ELSE LET r == add(ns, bs, Head(roots).id, Head(roots).parent_id)
         IN  addEach(r.nodes, r.branches, Tail(roots))

\* user.shares.iter().for_each(|share| shares.add_share(share.clone()))
RECURSIVE addShares(_, _)
addShares(s, list) ==
    IF list = <<>> THEN s
    ELSE addShares(add_share(s, Head(list)), Tail(list))

\* the for_each of finish_invite_intents_if_any
RECURSIVE finishEach(_, _)
finishEach(s, intents) ==
    IF intents = <<>> THEN s
    ELSE finishEach(
             delete_invite_intent(add_share(s, Head(intents).share),
                                  Head(intents).email).store,
             Tail(intents))

\* the guards of these stores are not held
Unlocked(names) == \A n \in names : guards[n] = Free

\* a task is serving a purge
Purging == \E r \in Req : reqs[r].h = "purge"

\* the stores that hold something
Holding ==
    {n \in {"nodes"} : nodes # <<>> \/ branches # <<>>}
        \cup {n \in {"shares"} : shares # SharesNew}
        \cup {n \in {"users"} : users # UsersNew}
        \cup {n \in {"sessions"} : sessions # SessionsNew}
        \cup {n \in {"webauthn"} : webauthn # WebauthnNew}
        \cup {n \in {"uploads"} : uploads # UploadsNew}

\* pre is a note on the last purge taken up: the stores that held something
\* when it arrived, and whether no other request has been in service since
PurgeNoted == "alone" \in DOMAIN pre

\* another request is taken up: a purge in service no longer has the server
\* to itself
Disturb ==
    pre' = IF PurgeNoted /\ Purging THEN [pre EXCEPT !.alone = FALSE] ELSE pre

InitSharing ==
    /\ nodes = <<>>
    /\ branches = <<>>
    /\ call = NoCall
    /\ ret = Unit
    /\ pre = SharesNew
    /\ InitServer
    /\ last = <<>>

StartInviteIntent ==
    \E intent \in StartedIntents :
        /\ Unlocked({"shares"})
        /\ shares' = add_invite_intent(shares, intent)
        /\ call' = [name |-> "start_invite_intent", intent |-> intent]
        /\ ret' = Created
        /\ Disturb
        /\ UNCHANGED <<nodes, branches, users, sessions, webauthn, uploads,
                       reqs, guards, last>>

Signup ==
    \E email \in Email, user \in LockedUsers :
        LET user_id == user._pub.id
            acked == ack_invite_intent(shares, email, user._pub)
            added == addEach(nodes, branches, user.roots)
        IN  /\ Unlocked({"nodes", "shares", "users"})
            /\ Len(shares.shares) + Len(user.shares) <= MaxShares
            /\ \A i \in 1 .. Len(user.roots) :
                 user.roots[i].id \in DOMAIN nodes
                     => Surplus(nodes, branches) < MaxStale
            /\ nodes' = added.nodes
            /\ branches' = added.branches
            /\ shares' = delete_invite(addShares(acked.store, user.shares), email)
            /\ users' = add_credentials(
                            add_pub(add_priv(users, user_id, LockedPriv),
                                    user_id, user._pub),
                            email, user_id)
            /\ call' = [name |-> "signup", email |-> email, _pub |-> user._pub]
            /\ ret' = Created
            /\ Disturb
            /\ UNCHANGED <<sessions, webauthn, uploads, reqs, guards, last>>

FinishInviteIntentsIfAny ==
    \E intents \in Batches(FinishInviteIntents) :
        /\ Unlocked({"shares"})
        /\ Len(shares.shares) + Len(intents) <= MaxShares
        /\ shares' = finishEach(shares, intents)
        /\ call' = [name |-> "finish_invite_intents_if_any",
                     emails |-> [i \in DOMAIN intents |-> intents[i].email]]
        /\ ret' = StatusOk
        /\ Disturb
        /\ UNCHANGED <<nodes, branches, users, sessions, webauthn, uploads,
                       reqs, guards, last>>

\* a purge request arrives; the first idle task serves it. Where a note on
\* the purge is kept, it is begun
PurgeStart ==
    \E r \in Req :
        /\ reqs[r] = Idle
        /\ \A q \in Req : q < r => reqs[q] # Idle
        /\ Cardinality({q \in Req : reqs[q].h = "purge"}) < MaxPurges
        /\ reqs' = [reqs EXCEPT ![r] = [h |-> "purge", pc |-> "nodes"]]
        /\ pre' = IF PurgeNoted
                   THEN [alone |-> \A q \in Req \ {r} : reqs[q] = Idle,
                         held |-> Holding]
                   ELSE pre
        /\ UNCHANGED <<nodes, branches, call, ret, shares, users, sessions,
                       webauthn, uploads, guards, last>>

\* the purge of task r stands before the scope of store `at` and goes on to
\* `next`
PurgeScope(r, at, next) ==
    /\ reqs[r] = [h |-> "purge", pc |-> at]
    /\ Unlocked({at})
    /\ reqs' = [reqs EXCEPT ![r] = next]
    /\ call' = [name |-> "purge", store |-> at]
    /\ ret' = Unit
    /\ UNCHANGED <<pre, guards>>

PurgeNodes ==
    \E r \in Req :
        /\ PurgeScope(r, "nodes", [h |-> "purge", pc |-> "shares"])
        /\ nodes' = <<>>
        /\ branches' = <<>>
        /\ UNCHANGED <<shares, users, sessions, webauthn, uploads, last>>

PurgeShares ==
    \E r \in Req :
        /\ PurgeScope(r, "shares", [h |-> "purge", pc |-> "users"])
        /\ shares' = SharesNew
        /\ UNCHANGED <<nodes, branches, users, sessions, webauthn, uploads, last>>

PurgeUsers ==
    \E r \in Req :
        /\ PurgeScope(r, "users", [h |-> "purge", pc |-> "sessions"])
        /\ users' = UsersNew
        /\ UNCHANGED <<nodes, branches, shares, sessions, webauthn, uploads, last>>

PurgeSessions ==
    \E r \in Req :
        /\ PurgeScope(r, "sessions", [h |-> "purge", pc |-> "webauthn"])
        /\ sessions' = SessionsNew
        /\ UNCHANGED <<nodes, branches, shares, users, webauthn, uploads, last>>

PurgeWebauthn ==
    \E r \in Req :
        /\ PurgeScope(r, "webauthn", [h |-> "purge", pc |-> "uploads"])
        /\ webauthn' = WebauthnNew
        /\ UNCHANGED <<nodes, branches, shares, users, sessions, uploads, last>>

\* what has happened to the upload of a file: nothing since the uploads were
\* last purged, a start_upload answered Created, or after it a finish_upload
\* answered OK
NotStarted == "none"
Started == "started"
Finished == "finished"

\* a last scope that leaves the uploads as they are
PurgeUploads_kept ==
    \E r \in Req :
        /\ PurgeScope(r, "uploads", Idle)
        /\ uploads' = uploads
        /\ last' = [f \in DOMAIN last |-> NotStarted]
        /\ UNCHANGED <<nodes, branches, shares, users, sessions, webauthn>>

\* the last scope; the handler then clears the uploads directory, which is
\* not part of the stores, and answers. Where `last` tells what has happened
\* to the upload of each file, that is forgotten
PurgeUploads ==
    \E r \in Req :
        /\ PurgeScope(r, "uploads", Idle)
        /\ uploads' = UploadsNew
        /\ last' = [f \in DOMAIN last |-> NotStarted]
        /\ UNCHANGED <<nodes, branches, shares, users, sessions, webauthn>>

NextSharing ==
    \/ StartInviteIntent
    \/ Signup
    \/ FinishInviteIntentsIfAny
    \/ PurgeStart
    \/ PurgeNodes
    \/ PurgeShares
    \/ PurgeUsers
    \/ PurgeSessions
    \/ PurgeWebauthn
    \/ PurgeUploads

SpecSharing == InitSharing /\ [][NextSharing]_vars

\* ------------------------------------------------------------------ C13
\* the receiver stored for email e, None also when no intent is stored for e
ReceiverOf(s, e) ==
    IF e \in DOMAIN s.intents THEN s.intents[e].receiver ELSE None

\* C13: over start_invite_intent, signup, finish_invite_intents and purge
\* requests, the receiver of the intent stored for an email becomes Some(pk)
\* only by a signup with that email, and once it is Some(pk) it stays that
\* value for as long as an intent is stored for the email.
C13_ReceiverFilledOnce ==
    [][\A e \in Email :
         /\ (ReceiverOf(shares, e) = None /\ ReceiverOf(shares', e) # None)
                => (call'.name = "signup" /\ call'.email = e)
         /\ (ReceiverOf(shares, e) # None /\ e \in DOMAIN shares'.intents)
                => ReceiverOf(shares', e) = ReceiverOf(shares, e)]_vars

\* ------------------------------------------------- requests served by tasks
\* A request is served by a task: it arrives, the task waits for the Mutex of
\* the handler's store and takes its guard, runs the handler's body under the
\* guard, and drops the guard when the handler returns its response.

\* task r serves nothing and takes up the request q
Arrive(r, q) ==
    /\ reqs[r] = Idle
    /\ reqs' = [reqs EXCEPT ![r] = q]

\* a lock that does not wait for the guard to be free
Lock_nowait(r, name, from, to) ==
    /\ reqs[r].h # "idle"
    /\ reqs[r].pc = from
    /\ guards' = [guards EXCEPT ![name] = r]
    /\ reqs' = [reqs EXCEPT ![r].pc = to]

\* `state.<name>.lock().await` of task r, which stands at `from`
Lock(r, name, from, to) ==
    /\ reqs[r].h # "idle"
    /\ reqs[r].pc = from
    /\ guards[name] = Free
    /\ guards' = [guards EXCEPT ![name] = r]
    /\ reqs' = [reqs EXCEPT ![r].pc = to]

\* the handler of task r returns: its guards are dropped, the task is idle
Finish(r) ==
    /\ guards' = [n \in StoreNames |-> IF guards[n] = r THEN Free ELSE guards[n]]
    /\ reqs' = [reqs EXCEPT ![r] = Idle]

\* task r is in handler h, at pc
At(r, h, pc) == reqs[r].h = h /\ reqs[r].pc = pc

\* Error::Unauthorised
Unauthorised == [tag |-> "Unauthorised"]

\* Ok((StatusCode::OK, Json(x)))
OkJson(x) == [tag |-> "OK", json |-> x]

\* nothing was served on the key yet
NotServed == [name |-> "none"]

\* ----------------------------------------------------------- session store
\* (src/src/sessions.rs, lock_session and unlock_session of main.rs)

\* token ids are 1..MaxToken
MaxToken == 2
\* seeds are 1..MaxSeed
MaxSeed == 2

TokenId == 1 .. MaxToken
Seeds == 1 .. MaxSeed

add_token(s, id, token) == [s EXCEPT !.tokens = MapInsert(@, id, token)]

\* consume_token_by_id that reads the token and leaves it in the map
consume_token_by_id_get(s, id) ==
    [store |-> s, result |-> MapGet(s.tokens, id)]

consume_token_by_id(s, id) ==
    [store |-> [s EXCEPT !.tokens = MapRemove(@, id)],
     result |-> MapGet(s.tokens, id)]

\* everything but the session store, the tasks, the guards and `last`
notSessions ==
    <<nodes, branches, call, ret, pre, shares, users, webauthn, uploads>>

InitSessions ==
    /\ nodes = <<>>
    /\ branches = <<>>
    /\ call = NoCall
    /\ ret = Unit
    /\ pre = SessionsNew
    /\ InitServer
    /\ last = [t \in TokenId |-> NotServed]

\* POST /sessions/lock/:token_id arrives
LockSessionArrive ==
    \E r \in Req, token_id \in TokenId, token \in Seeds :
        /\ Arrive(r, [h |-> "lock_session", token_id |-> token_id,
                      token |-> token, pc |-> "lock"])
        /\ UNCHANGED <<sessions, guards, last>>
        /\ UNCHANGED notSessions

\* let mut sessions = state.sessions.lock().await
LockSessionLock ==
    \E r \in Req :
        /\ reqs[r].h = "lock_session"
        /\ Lock(r, "sessions", "lock", "body")
        /\ UNCHANGED <<sessions, last>>
        /\ UNCHANGED notSessions

\* sessions.add_token(token_id, token); Ok(StatusCode::CREATED)
LockSessionBody ==
    \E r \in Req :
        /\ At(r, "lock_session", "body")
        /\ sessions' = add_token(sessions, reqs[r].token_id, reqs[r].token)
        /\ last' = [last EXCEPT ![reqs[r].token_id] =
                      [name |-> "lock_session", token |-> reqs[r].token,
                       ret |-> Created]]
        /\ Finish(r)
        /\ UNCHANGED notSessions

\* POST /sessions/unlock/:token_id arrives
UnlockSessionArrive ==
    \E r \in Req, token_id \in TokenId :
        /\ Arrive(r, [h |-> "unlock_session", token_id |-> token_id,
                      pc |-> "lock"])
        /\ UNCHANGED <<sessions, guards, last>>
        /\ UNCHANGED notSessions

\* let mut sessions = state.sessions.lock().await
UnlockSessionLock ==
    \E r \in Req :
        /\ reqs[r].h = "unlock_session"
        /\ Lock(r, "sessions", "lock", "body")
        /\ UNCHANGED <<sessions, last>>
        /\ UNCHANGED notSessions

\* if let Some(token) = sessions.consume_token_by_id(token_id) { Ok(..) }
\* else { Err(Error::Unauthorised) }
UnlockSessionBody ==
    \E r \in Req :
        LET c == consume_token_by_id(sessions, reqs[r].token_id)
        IN  /\ At(r, "unlock_session", "body")
            /\ sessions' = c.store
            /\ last' = [last EXCEPT ![reqs[r].token_id] =
                          [name |-> "unlock_session",
                           ret |-> IF c.result # None
                                   THEN OkJson(c.result.v)
                                   ELSE Unauthorised]]
            /\ Finish(r)
            /\ UNCHANGED notSessions

NextSessions ==
    \/ LockSessionArrive
    \/ LockSessionLock
    \/ LockSessionBody
    \/ UnlockSessionArrive
    \/ UnlockSessionLock
    \/ UnlockSessionBody

SpecSessions == InitSessions /\ [][NextSessions]_vars

\* ------------------------------------------------------------------ C14
\* in this step task r, holding the sessions guard, runs unlock_session(t)
\* to its response
UnlockServed(r, t) ==
    /\ At(r, "unlock_session", "body")
    /\ reqs[r].token_id = t
    /\ guards["sessions"] = r
    /\ reqs'[r] = Idle

\* C14: session tokens are one-shot under any interleaving of lock_session
\* and unlock_session requests: an unlock_session(t) returns the seed when
\* the request served on t before it was a lock_session(t, seed), that is,
\* when it is the first unlock_session(t) to take the sessions guard after
\* that lock_session, and returns Unauthorised in every other case; a token
\* is stored exactly while the last request served on it is a lock_session.
C14_OneShotToken ==
    /\ [](\A t \in TokenId :
            /\ t \in DOMAIN sessions.tokens <=> last[t].name = "lock_session"
            /\ t \in DOMAIN sessions.tokens => sessions.tokens[t] = last[t].token)
    /\ [][\A r \in Req, t \in TokenId :
            UnlockServed(r, t) =>
                last'[t].ret = IF last[t].name = "lock_session"
                               THEN OkJson(last[t].token)
                               ELSE Unauthorised]_vars

\* C14 witness: of two unlock_session requests for the same token in service
\* at the same time, one has returned the seed and the other now holds the
\* sessions guard
C14_Witness ==
    \E r \in Req, t \in TokenId :
        /\ At(r, "unlock_session", "body")
        /\ reqs[r].token_id = t
        /\ guards["sessions"] = r
        /\ last[t].name = "unlock_session"
        /\ last[t].ret \in {OkJson(x) : x \in Seeds}

\* ---------------------------------------------------------- WebAuthn store
\* (src/src/webauthn.rs and the webauthn_* handlers of main.rs)
\* Each handler works under the webauthn guard alone, from its lock to its
\* return: taking the guard, the body and the return are one step of the task.
\* A Salt is a number; the client_data_json of a credential or of an
\* assertion is represented by the challenge it carries, the
\* authenticator_data of an assertion by the key that signed it, a Passkey by
\* its prf_salt, user_id, id and pub_key.

\* salts (challenges) are 1..MaxSalt
MaxSalt == 2
\* credential ids are 1..MaxCred
MaxCred == 2
\* auth challenge ids are 1..MaxChallenge
MaxChallenge == 1
\* authenticator keys are 1..MaxKey
MaxKey == 1

Salts == 1 .. MaxSalt
CredentialId == 1 .. MaxCred
ChallengeId == 1 .. MaxChallenge
Keys == 1 .. MaxKey

\* const PRF_SALT
PRF_SALT == "k47,0V=0#f6fn!yfN2Osy-ht,.%ay4md"

\* Registration::new(), for each value Salt::generate() can give
Registrations == [challenge : Salts, prf_salt : {PRF_SALT}]

\* AuthChallenge::new(), for each value Uid::generate() and Salt::generate()
\* can give
AuthChallenges ==
    [id : ChallengeId, challenge : Salts, prf_salt : {Some(PRF_SALT)}]

\* Bundle.cred
Credentials ==
    [id : CredentialId, attestation : Keys, client_data_json : [challenge : Salts]]

Authentications ==
    [id : CredentialId, authenticator_data : [signer : Keys],
     client_data_json : [challenge : Salts]]

add_registration(w, id, reg) ==
    [w EXCEPT !.pending_registrations = MapInsert(@, id, reg)]

\* consume_registration that reads the registration and leaves it in the map
consume_registration_get(w, user_id) ==
    [store |-> w, result |-> MapGet(w.pending_registrations, user_id)]

consume_registration(w, user_id) ==
    [store |-> [w EXCEPT !.pending_registrations = MapRemove(@, user_id)],
     result |-> MapGet(w.pending_registrations, user_id)]

add_passkey(w, user_id, prf_salt, cred) ==
    [w EXCEPT !.passkeys =
        MapInsert(@, cred.id,
                  [prf_salt |-> prf_salt, id |-> cred.id, user_id |-> user_id,
                   pub_key |-> cred.attestation])]

\* passkey_for_credential_id that returns some stored passkey, whatever its id
passkey_for_credential_id_any(w, id) ==
    IF DOMAIN w.passkeys = {} THEN None
    ELSE Some(w.passkeys[CHOOSE k \in DOMAIN w.passkeys : k # id \/ DOMAIN w.passkeys = {id}])

passkey_for_credential_id(w, id) == MapGet(w.passkeys, id)

add_auth_challenge(w, ch) ==
    [w EXCEPT !.auth_challenges = MapInsert(@, ch.id, ch.challenge)]

\* consume_auth_challenge that reads the challenge and leaves it in the map
consume_auth_challenge_get(w, id) ==
    [store |-> w, result |-> MapGet(w.auth_challenges, id)]

consume_auth_challenge(w, id) ==
    [store |-> [w EXCEPT !.auth_challenges = MapRemove(@, id)],
     result |-> MapGet(w.auth_challenges, id)]

\* the body is `true`: neither argument is read
verify_reg_challenge(ch, against) == TRUE

\* the body is `true`: neither argument is read
verify_auth_challenge(ch, against) == TRUE

\* task r, waiting in handler h, finds the Mutex of store `name` unlocked
Serve(r, h, name) == At(r, h, "wait") /\ guards[name] = Free

\* everything but the WebAuthn store, the record of the last request, the
\* tasks, the guards and `last`
notWebauthn == <<nodes, branches, shares, users, sessions, uploads>>

InitWebauthn ==
    /\ nodes = <<>>
    /\ branches = <<>>
    /\ call = NoCall
    /\ ret = Unit
    /\ pre = WebauthnNew
    /\ InitServer
    /\ last = [reg |-> [u \in UserId |-> "none"],
               auth |-> [c \in ChallengeId |-> "none"]]

\* POST /webauthn/start-reg/:user_id arrives
StartRegArrive ==
    \E r \in Req, user_id \in UserId :
        /\ Arrive(r, [h |-> "webauthn_start_reg", user_id |-> user_id,
                      pc |-> "wait"])
        /\ UNCHANGED <<call, ret, pre, webauthn, guards, last>>
        /\ UNCHANGED notWebauthn

\* the guard is taken, the registration made before the lock is stored and
\* returned
StartRegServe ==
    \E r \in Req, reg \in Registrations :
        /\ Serve(r, "webauthn_start_reg", "webauthn")
        /\ webauthn' = add_registration(webauthn, reqs[r].user_id, reg)
        /\ call' = [name |-> "webauthn_start_reg", user_id |-> reqs[r].user_id]
        /\ ret' = [tag |-> "Created", json |-> reg]
        /\ pre' = webauthn
        /\ last' = [last EXCEPT !.reg[reqs[r].user_id] = "webauthn_start_reg"]
        /\ Finish(r)
        /\ UNCHANGED notWebauthn

\* POST /webauthn/finish-reg/:user_id arrives
FinishRegArrive ==
    \E r \in Req, user_id \in UserId :
        /\ Arrive(r, [h |-> "webauthn_finish_reg", user_id |-> user_id,
                      pc |-> "wait"])
        /\ UNCHANGED <<call, ret, pre, webauthn, guards, last>>
        /\ UNCHANGED notWebauthn

\* webauthn_finish_reg after the lock, for the credential of the request body
finish_reg(w, user_id, cred) ==
    LET c == consume_registration(w, user_id)
    IN  IF c.result = None
        THEN [store |-> c.store, result |-> Unauthorised]
        ELSE IF verify_reg_challenge(cred.client_data_json, c.result.v.challenge)
             THEN [store |-> add_passkey(c.store, user_id, c.result.v.prf_salt,
                                         cred),
                   result |-> Created]
             ELSE [store |-> c.store, result |-> Unauthorised]

FinishRegServe ==
    \E r \in Req, cred \in Credentials :
        LET f == finish_reg(webauthn, reqs[r].user_id, cred)
        IN  /\ Serve(r, "webauthn_finish_reg", "webauthn")
            /\ webauthn' = f.store
            /\ call' = [name |-> "webauthn_finish_reg",
                        user_id |-> reqs[r].user_id, cred |-> cred]
            /\ ret' = f.result
            /\ pre' = webauthn
            /\ last' = [last EXCEPT
                          !.reg[reqs[r].user_id] = "webauthn_finish_reg"]
            /\ Finish(r)
            /\ UNCHANGED notWebauthn

\* POST /webauthn/start-auth arrives
StartAuthArrive ==
    \E r \in Req :
        /\ Arrive(r, [h |-> "webauthn_start_auth", pc |-> "wait"])
        /\ UNCHANGED <<call, ret, pre, webauthn, guards, last>>
        /\ UNCHANGED notWebauthn

\* the guard is taken; let ch = AuthChallenge::new();
\* wauth.add_auth_challenge(ch.clone())
StartAuthServe ==
    \E r \in Req, ch \in AuthChallenges :
        /\ Serve(r, "webauthn_start_auth", "webauthn")
        /\ webauthn' = add_auth_challenge(webauthn, ch)
        /\ call' = [name |-> "webauthn_start_auth", id |-> ch.id]
        /\ ret' = [tag |-> "Created", json |-> ch]
        /\ pre' = webauthn
        /\ last' = [last EXCEPT !.auth[ch.id] = "webauthn_start_auth"]
        /\ Finish(r)
        /\ UNCHANGED notWebauthn

\* POST /webauthn/finish-auth/:id arrives
FinishAuthArrive ==
    \E r \in Req, ch_id \in ChallengeId :
        /\ Arrive(r, [h |-> "webauthn_finish_auth", ch_id |-> ch_id,
                      pc |-> "wait"])
        /\ UNCHANGED <<call, ret, pre, webauthn, guards, last>>
        /\ UNCHANGED notWebauthn

\* webauthn_finish_auth after the lock, for the assertion of the request body
finish_auth(w, ch_id, auth) ==
    LET c == consume_auth_challenge(w, ch_id)
    IN  IF c.result = None
        THEN [store |-> c.store, result |-> Unauthorised]
        ELSE IF verify_auth_challenge(auth, c.result.v)
             THEN LET pk == passkey_for_credential_id(c.store, auth.id)
                  IN  IF pk = None
                      THEN [store |-> c.store, result |-> Unauthorised]
                      ELSE [store |-> c.store, result |-> OkJson(pk.v)]
             ELSE [store |-> c.store, result |-> Unauthorised]

FinishAuthServe ==
    \E r \in Req, auth \in Authentications :
        LET f == finish_auth(webauthn, reqs[r].ch_id, auth)
        IN  /\ Serve(r, "webauthn_finish_auth", "webauthn")
            /\ webauthn' = f.store
            /\ call' = [name |-> "webauthn_finish_auth",
                        ch_id |-> reqs[r].ch_id, auth |-> auth]
            /\ ret' = f.result
            /\ pre' = webauthn
            /\ last' = [last EXCEPT !.auth[reqs[r].ch_id] = "webauthn_finish_auth"]
            /\ Finish(r)
            /\ UNCHANGED notWebauthn

NextWebauthn ==
    \/ StartRegArrive
    \/ StartRegServe
    \/ FinishRegArrive
    \/ FinishRegServe
    \/ StartAuthArrive
    \/ StartAuthServe
    \/ FinishAuthArrive
    \/ FinishAuthServe

SpecWebauthn == InitWebauthn /\ [][NextWebauthn]_vars

\* ------------------------------------------------------------------ C15
\* in this step task r, waiting in webauthn_finish_reg for user u, is served
FinishRegServed(r, u) ==
    /\ At(r, "webauthn_finish_reg", "wait")
    /\ reqs[r].user_id = u
    /\ reqs'[r] = Idle

\* C15: a pending registration is consumed by the first finish_reg for its
\* user: a registration is pending for u exactly while the last request
\* served for u is a start_reg(u); a finish_reg(u, _) that is not the first
\* one served since a start_reg(u) returns Unauthorised and leaves the store
\* as it is, so at most one finish_reg succeeds per start_reg, under every
\* interleaving; the one that succeeds stores a passkey of u.
C15_OneShotRegistration ==
    /\ [](\A u \in UserId :
            u \in DOMAIN webauthn.pending_registrations
                <=> last.reg[u] = "webauthn_start_reg")
    /\ [][\A r \in Req, u \in UserId :
            FinishRegServed(r, u) =>
                IF last.reg[u] = "webauthn_start_reg"
                THEN ret' = Created =>
                        /\ call'.cred.id \in DOMAIN webauthn'.passkeys
                        /\ webauthn'.passkeys[call'.cred.id].user_id = u
                ELSE /\ ret' = Unauthorised
                     /\ webauthn' = webauthn]_vars

\* C15 witness: a finish_reg for a user has succeeded while another finish_reg
\* for the same user is waiting to be served
C15_Witness ==
    \E r \in Req :
        /\ call.name = "webauthn_finish_reg"
        /\ ret = Created
        /\ call.user_id \in DOMAIN pre.pending_registrations
        /\ At(r, "webauthn_finish_reg", "wait")
        /\ reqs[r].user_id = call.user_id
        /\ last.reg[call.user_id] = "webauthn_finish_reg"

\* ------------------------------------------------------------------ C16
\* the assertion carries the challenge and is signed by the key of the passkey
\* stored under its credential id
Verifies(auth, challenge, passkeys) ==
    /\ auth.client_data_json.challenge = challenge
    /\ auth.id \in DOMAIN passkeys
    /\ auth.authenticator_data.signer = passkeys[auth.id].pub_key

\* C16: a finish_reg whose client-data challenge differs from the challenge
\* of the pending registration returns Unauthorised and stores no passkey,
\* and a finish_auth whose assertion does not verify against the consumed
\* challenge and the passkey's public key returns Unauthorised.
C16_VerifiedOnly ==
    /\ (/\ call.name = "webauthn_finish_reg"
        /\ call.user_id \in DOMAIN pre.pending_registrations
        /\ call.cred.client_data_json.challenge
              # pre.pending_registrations[call.user_id].challenge)
           => (ret = Unauthorised /\ webauthn.passkeys = pre.passkeys)
    /\ (/\ call.name = "webauthn_finish_auth"
        /\ call.ch_id \in DOMAIN pre.auth_challenges
        /\ ~Verifies(call.auth, pre.auth_challenges[call.ch_id], pre.passkeys))
           => ret = Unauthorised

\* ------------------------------------------------------------------ C17
\* in this step task r, waiting in webauthn_finish_auth for challenge c, is
\* served
FinishAuthServed(r, c) ==
    /\ At(r, "webauthn_finish_auth", "wait")
    /\ reqs[r].ch_id = c
    /\ reqs'[r] = Idle

\* C17: after a finish_auth(ch, a) has returned, with a passkey or with
\* Unauthorised, the credential id being known or not, the auth challenge ch
\* is not stored until start_auth issues it again, and a finish_auth(ch, _)
\* that is served next on ch returns Unauthorised.
C17_ChallengeConsumed ==
    /\ [](/\ call.name = "webauthn_finish_auth"
              => call.ch_id \notin DOMAIN webauthn.auth_challenges
          /\ \A c \in ChallengeId :
               last.auth[c] = "webauthn_finish_auth"
                   => c \notin DOMAIN webauthn.auth_challenges)
    /\ [][\A r \in Req, c \in ChallengeId :
            (FinishAuthServed(r, c) /\ last.auth[c] = "webauthn_finish_auth")
                => ret' = Unauthorised]_vars

\* C17 witness: a finish_auth on a stored challenge with a credential id that
\* has no passkey returned Unauthorised, and the challenge is gone
C17_Witness ==
    /\ call.name = "webauthn_finish_auth"
    /\ call.ch_id \in DOMAIN pre.auth_challenges
    /\ call.auth.id \notin DOMAIN pre.passkeys
    /\ ret = Unauthorised
    /\ call.ch_id \notin DOMAIN webauthn.auth_challenges

\* ------------------------------------------------------------------ C18
\* C18: an auth challenge is stored exactly while the last request served on
\* its id is the start_auth that issued it; finish_auth(ch_id, auth) returns a
\* passkey only if ch_id was stored and a passkey was stored under auth.id,
\* and then it returns exactly that passkey; if ch_id was not stored it
\* returns Unauthorised and leaves the WebAuthn store as it was; finish_auth
\* never adds, changes or removes a passkey.
C18_FinishAuth ==
    /\ \A c \in ChallengeId :
         c \in DOMAIN webauthn.auth_challenges
             <=> last.auth[c] = "webauthn_start_auth"
    /\ call.name = "webauthn_finish_auth" =>
         /\ webauthn.passkeys = pre.passkeys
         /\ ret # Unauthorised =>
              /\ call.ch_id \in DOMAIN pre.auth_challenges
              /\ call.auth.id \in DOMAIN pre.passkeys
              /\ ret = OkJson(pre.passkeys[call.auth.id])
         /\ call.ch_id \notin DOMAIN pre.auth_challenges =>
              (ret = Unauthorised /\ webauthn = pre)

\* C18 witness: with a passkey stored under each credential id, finish_auth
\* returned the one stored under auth.id
C18_Witness ==
    /\ call.name = "webauthn_finish_auth"
    /\ DOMAIN pre.passkeys = CredentialId
    /\ pre.passkeys[1] # [pre.passkeys[2] EXCEPT !.id = 1]
    /\ ret = OkJson(pre.passkeys[call.auth.id])

\* ----------------------------------------------------------- partition_file
\* (src/src/s3.rs) file_size is an i64 and num_chunks a usize. A 64-bit word
\* is written as four limbs, lowest first: three of 20 bits and a top one of
\* 4 bits, so that no step of the arithmetic leaves the range of the model
\* checker's integers. An i64 is read from its word in two's complement.

\* 1024 * 1024, the unit of the thresholds and chunk sizes, and the limb base
MiB == 1024 * 1024

\* the range of the top limb: 64 - 3 * 20 bits
TopLimb == 2 ^ 4

\* file sizes of up to MaxMiB whole MiB are drawn, ...
MaxMiB == 501
\* ... and file sizes that are less than TopSlack MiB short of 2^63
TopSlack == 52
\* ... and negative file sizes down to MaxNegMiB MiB below zero
MaxNegMiB == 11

Word(l1, l2, l3, l4) == <<l1, l2, l3, l4>>

\* k MiB as a word, k < 2^20
MiBs(k) == Word(0, k, 0, 0)

\* the sign bit of the word is set
IsNeg(w) == w[4] >= TopLimb \div 2

\* a + b modulo 2^64
wrapping_add(a, b) ==
    LET s1 == a[1] + b[1]
        s2 == a[2] + b[2] + (s1 \div MiB)
        s3 == a[3] + b[3] + (s2 \div MiB)
        s4 == a[4] + b[4] + (s3 \div MiB)
    IN  Word(s1 % MiB, s2 % MiB, s3 % MiB, s4 % TopLimb)

\* 2^64 - 1
AllOnes == Word(MiB - 1, MiB - 1, MiB - 1, TopLimb - 1)

\* a - 1 modulo 2^64
wrapping_dec(a) == wrapping_add(a, AllOnes)

\* -a modulo 2^64
wrapping_neg(a) ==
    wrapping_add(Word(MiB - 1 - a[1], MiB - 1 - a[2], MiB - 1 - a[3],
                      TopLimb - 1 - a[4]),
                 Word(1, 0, 0, 0))

\* the unsigned word a divided by k MiB, rounded down: long division of the
\* upper three limbs by k
udiv(a, k) ==
    LET t3 == (a[4] % k) * MiB + a[3]
        t2 == (t3 % k) * MiB + a[2]
    IN  Word(t2 \div k, t3 \div k, a[4] \div k, 0)

\* the i64 a divided by k MiB: `/` rounds towards zero
idiv(a, k) ==
    IF IsNeg(a) THEN wrapping_neg(udiv(wrapping_neg(a), k)) ELSE udiv(a, k)

\* the i64 a is less than k MiB
LessThanMiBs(a, k) == IsNeg(a) \/ (a[4] = 0 /\ a[3] = 0 /\ a[2] < k)

\* the thread panics: 'attempt to add with overflow'
Panic == [tag |-> "Panic"]

\* chunk_size in MiB
chunk_mib(file_size) ==
    IF LessThanMiBs(file_size, 50) THEN 5
    ELSE IF LessThanMiBs(file_size, 500) THEN 10
    ELSE 50

\* partition_file: the outcomes the build can give. When file_size +
\* chunk_size passes i64::MAX (file_size is not negative and the sum is), a
\* build with overflow checks (debug) panics and a build without them
\* (release) goes on with the wrapped sum; `as usize` keeps the quotient's
\* 64 bits, so a negative quotient is read as an unsigned number.
partition_file(file_size) ==
    LET k == chunk_mib(file_size)
        sum == wrapping_add(file_size, MiBs(k))
        plan == [chunk_size |-> k * MiB,
                 num_chunks |-> idiv(wrapping_dec(sum), k)]
    IN  IF ~IsNeg(file_size) /\ IsNeg(sum) THEN {Panic, plan} ELSE {plan}

\* the file sizes drawn: every number of whole MiB up to MaxMiB, and the
\* numbers of whole MiB less than TopSlack short of 2^63, each with 0, 1 and
\* 2^20 - 1 bytes more
\* The negative sizes drawn: minus every such number up to MaxNegMiB whole
\* MiB, and i64::MIN
FileSizes ==
    {Word(lo, mid, 0, 0) : lo \in {0, 1, MiB - 1}, mid \in 0 .. MaxMiB}
        \cup {Word(lo, mid, MiB - 1, TopLimb \div 2 - 1) :
                lo \in {0, 1, MiB - 1}, mid \in (MiB - TopSlack) .. (MiB - 1)}
        \cup {wrapping_neg(Word(lo, mid, 0, 0)) :
                lo \in {0, 1, MiB - 1}, mid \in 0 .. MaxNegMiB}
        \cup {Word(0, 0, 0, TopLimb \div 2)}

InitPartition ==
    /\ nodes = <<>>
    /\ branches = <<>>
    /\ call = NoCall
    /\ ret = Unit
    /\ pre = Unit
    /\ InitServer
    /\ last = <<>>

PartitionFile ==
    \E file_size \in FileSizes :
        \E plan \in partition_file(file_size) :
            /\ call = NoCall
            /\ call' = [name |-> "partition_file", file_size |-> file_size]
            /\ ret' = plan
            /\ UNCHANGED <<nodes, branches, pre, shares, users, sessions,
                           webauthn, uploads, reqs, guards, last>>

NextPartition == PartitionFile \/ Return

SpecPartition == InitPartition /\ [][NextPartition]_vars

\* ------------------------------------------------------------------ C19
\* limb i of the unsigned number a, lowest limb first
LimbOf(a, i) == IF i <= Len(a) THEN a[i] ELSE 0

\* a < b, from limb i down
RECURSIVE LessFrom(_, _, _)
LessFrom(a, b, i) ==
    IF i = 0 THEN FALSE
    ELSE IF LimbOf(a, i) # LimbOf(b, i) THEN LimbOf(a, i) < LimbOf(b, i)
    ELSE LessFrom(a, b, i - 1)

\* a < b for unsigned numbers of any length
Less(a, b) == LessFrom(a, b, IF Len(a) > Len(b) THEN Len(a) ELSE Len(b))

\* a * k from limb i up, k < 2^10
RECURSIVE TimesFrom(_, _, _, _)
TimesFrom(a, k, i, carry) ==
    IF i > Len(a) THEN <<carry>>
    ELSE <<(a[i] * k + carry) % MiB>>
             \o TimesFrom(a, k, i + 1, (a[i] * k + carry) \div MiB)

\* the unsigned word n times k MiB, as an unsigned number of six limbs
TimesMiBs(n, k) == <<0>> \o TimesFrom(n, k, 1, 0)

IsZero(a) == \A i \in 1 .. Len(a) : a[i] = 0

\* n = ceil(file_size / (k MiB)), n read as an unsigned number:
\* n = 0 for file_size = 0, else (n - 1) * k MiB < file_size <= n * k MiB
IsCeil(n, file_size, k) ==
    IF IsZero(file_size) THEN IsZero(n)
    ELSE /\ ~IsZero(n)
         /\ Less(TimesMiBs(wrapping_dec(n), k), file_size)
         /\ ~Less(TimesMiBs(n, k), file_size)

\* C19: for every file_size >= 0, partition_file returns chunk_size = 5 MiB
\* when file_size < 50 MiB, 10 MiB when 50 MiB <= file_size < 500 MiB and
\* 50 MiB otherwise, and num_chunks = ceil(file_size / chunk_size).
C19_Partition ==
    (call.name = "partition_file" /\ ~IsNeg(call.file_size)) =>
        /\ ret # Panic
        /\ ret.chunk_size =
              (IF Less(call.file_size, MiBs(50)) THEN 5 * MiB
               ELSE IF Less(call.file_size, MiBs(500)) THEN 10 * MiB
               ELSE 50 * MiB)
        /\ IsCeil(ret.num_chunks, call.file_size, ret.chunk_size \div MiB)

\* ------------------------------------------ handlers holding several guards
\* (src/src/main.rs) signup, login, get_user and get_invite take more than one
\* store guard; invite is the single-guard request that gives get_invite
\* something to find. Every `lock().await` is a step of its own: the task is
\* suspended there while the guard is held by another task.

\* Nodes::get_all: the values of the map, in no particular order
get_all(ns) == {[id |-> i, parent_id |-> ns[i]] : i \in DOMAIN ns}

\* a listing that does not filter by sender
get_invite_intents_of_all(s, sender) == {s.intents[e] : e \in DOMAIN s.intents}

\* Shares::get_invite_intents_for_sender: values of the map, in no
\* particular order
get_invite_intents_for_sender(s, sender) ==
    {s.intents[e] : e \in {x \in DOMAIN s.intents : s.intents[x].sender.id = sender}}

\* Shares::invie_for_mail
invie_for_mail(s, email) == MapGet(s.invites, email)

\* Users::id_for_email, priv_for_id, pub_for_id
id_for_email(u, email) == MapGet(u.credentials, email)
priv_for_id(u, id) == MapGet(u.private_keys, id)
pub_for_id(u, id) == MapGet(u.public_keys, id)

\* a user_by_id that does not look for the public identity
user_by_id_unchecked(ns, s, u, id) ==
    IF priv_for_id(u, id) = None THEN Unauthorised
    ELSE OkJson([encrypted_priv |-> priv_for_id(u, id).v,
                 _pub |-> [id |-> id],
                 shares |-> all_shares_for_user(s, id),
                 roots |-> {},
                 pending_invite_intents |-> get_invite_intents_for_sender(s, id)])

\* the body of State::user_by_id, under the three guards
user_by_id(ns, s, u, id) ==
    IF priv_for_id(u, id) = None \/ pub_for_id(u, id) = None THEN Unauthorised
    ELSE OkJson([encrypted_priv |-> priv_for_id(u, id).v,
                 _pub |-> pub_for_id(u, id).v,
                 shares |-> all_shares_for_user(s, id),
                 roots |-> get_all(ns),
                 pending_invite_intents |-> get_invite_intents_for_sender(s, id)])

\* the path parameter of get_invite: the URL-safe base64 of an email, or a
\* string that does not decode
Encoded(email) == [tag |-> "Base64", email |-> email]
NotBase64 == [tag |-> "NotBase64"]
EmailPaths == {Encoded(e) : e \in Email} \cup {NotBase64}

\* base64::decode_config and String::from_utf8
decode(path) == IF path = NotBase64 THEN None ELSE Some(path.email)

\* Error::NoInvite
NoInvite == [tag |-> "NoInvite"]

\* the body of get_invite, under its two guards
welcome(ns, s, path) ==
    IF decode(path) = None THEN NoInvite
    ELSE LET invite == invie_for_mail(s, decode(path).v)
         IN  IF invite = None THEN NoInvite
             ELSE OkJson([sender |-> invite.v.sender, nodes |-> get_all(ns)])

\* the users signing up here: with a root and no shares
JoiningUsers == {u \in LockedUsers : u.shares = <<>> /\ u.roots # <<>>}

\* the intents posted here: not acknowledged, as a client posts them
PostedIntents == {i \in StartedIntents : i.receiver = None}

\* the invites posted here
PostedInvites == {i \in Invites : i.sender.id = 1}

\* r is the first idle task
FirstIdle(r) == reqs[r] = Idle /\ \A q \in Req : q < r => reqs[q] # Idle

notStores == <<nodes, branches, shares, users, sessions, webauthn, uploads>>

\* the stores a signup works on
Snapshot(ns, bs, s, u) == [nodes |-> ns, branches |-> bs, shares |-> s, users |-> u]

\* pre holds these stores as the last completed mutation left them
InitLocks ==
    /\ nodes = <<>>
    /\ branches = <<>>
    /\ call = NoCall
    /\ ret = Unit
    /\ pre = Snapshot(<<>>, <<>>, SharesNew, UsersNew)
    /\ InitServer
    /\ last = <<>>

\* call and ret hold the response the step sends, if it sends one
NoResponse == call' = NoCall /\ ret' = Unit

\* a request arrives and task r starts its handler, which runs up to its
\* first lock().await
Start(r, q) ==
    /\ FirstIdle(r)
    /\ Arrive(r, q)
    /\ NoResponse
    /\ UNCHANGED <<pre, guards, last>>

\* task r gets the guard it waits for
Acquire(r, h, name, to) ==
    /\ reqs[r].h = h
    /\ Lock(r, name, name, to)
    /\ NoResponse
    /\ UNCHANGED <<pre, last>>

SignupArrive ==
    \E r \in Req, email \in Email, user \in JoiningUsers :
        /\ Start(r, [h |-> "signup", pc |-> "nodes", email |-> email,
                     user |-> user])
        /\ UNCHANGED notStores

SignupLockNodes ==
    \E r \in Req :
        /\ Acquire(r, "signup", "nodes", "shares")
        /\ UNCHANGED notStores

SignupLockShares ==
    \E r \in Req :
        /\ Acquire(r, "signup", "shares", "users")
        /\ UNCHANGED notStores

SignupLockUsers ==
    \E r \in Req :
        /\ Acquire(r, "signup", "users", "body")
        /\ UNCHANGED notStores

\* the statements of signup's body, under the three guards; no await
\* separates them, and tasks on other threads run meanwhile
SignupStep(r, from, to) ==
    /\ At(r, "signup", from)
    /\ reqs' = [reqs EXCEPT ![r].pc = to]
    /\ NoResponse
    /\ UNCHANGED <<pre, guards, sessions, webauthn, uploads, last>>

SignupAckIntent ==
    \E r \in Req :
        /\ SignupStep(r, "body", "roots")
        /\ Len(shares.shares) + Len(reqs[r].user.shares) <= MaxShares
        /\ \A i \in 1 .. Len(reqs[r].user.roots) :
             reqs[r].user.roots[i].id \in DOMAIN nodes
                 => Surplus(nodes, branches) < MaxStale
        /\ shares' = ack_invite_intent(shares, reqs[r].email,
                                       reqs[r].user._pub).store
        /\ UNCHANGED <<nodes, branches, users>>

SignupAddRoots ==
    \E r \in Req :
        /\ SignupStep(r, "roots", "add_shares")
        /\ nodes' = addEach(nodes, branches, reqs[r].user.roots).nodes
        /\ branches' = addEach(nodes, branches, reqs[r].user.roots).branches
        /\ UNCHANGED <<shares, users>>

SignupAddShares ==
    \E r \in Req :
        /\ SignupStep(r, "add_shares", "delete_invite")
        /\ shares' = addShares(shares, reqs[r].user.shares)
        /\ UNCHANGED <<nodes, branches, users>>

SignupDeleteInvite ==
    \E r \in Req :
        /\ SignupStep(r, "delete_invite", "add_priv")
        /\ shares' = delete_invite(shares, reqs[r].email)
        /\ UNCHANGED <<nodes, branches, users>>

SignupAddPriv ==
    \E r \in Req :
        /\ SignupStep(r, "add_priv", "add_pub")
        /\ users' = add_priv(users, reqs[r].user._pub.id, LockedPriv)
        /\ UNCHANGED <<nodes, branches, shares>>

SignupAddPub ==
    \E r \in Req :
        /\ SignupStep(r, "add_pub", "add_credentials")
        /\ users' = add_pub(users, reqs[r].user._pub.id, reqs[r].user._pub)
        /\ UNCHANGED <<nodes, branches, shares>>

\* the last statement; the handler returns and drops its guards
SignupAddCredentials ==
    \E r \in Req :
        /\ At(r, "signup", "add_credentials")
        /\ users' = add_credentials(users, reqs[r].email, reqs[r].user._pub.id)
        /\ call' = [name |-> "signup"]
        /\ ret' = Created
        /\ pre' = Snapshot(nodes, branches, shares, users')
        /\ Finish(r)
        /\ UNCHANGED <<nodes, branches, shares, sessions, webauthn, uploads, last>>

LoginArrive ==
    \E r \in Req, email \in Email :
        /\ Start(r, [h |-> "login", pc |-> "email", email |-> email])
        /\ UNCHANGED notStores

\* State::user_by_email: the users guard lives for the one statement that
\* looks the id up; without an id the handler returns
LoginByEmail ==
    \E r \in Req :
        /\ At(r, "login", "email")
        /\ guards["users"] = Free
        /\ LET id == id_for_email(users, reqs[r].email)
           IN  IF id = None
               THEN /\ Finish(r)
                    /\ call' = [name |-> "login"]
                    /\ ret' = Unauthorised
               ELSE /\ reqs' = [reqs EXCEPT
                                  ![r] = [h |-> "login", pc |-> "nodes",
                                          id |-> id.v]]
                    /\ NoResponse
                    /\ UNCHANGED guards
        /\ UNCHANGED <<pre, last>>
        /\ UNCHANGED notStores

GetUserArrive ==
    \E r \in Req, user_id \in UserId :
        /\ Start(r, [h |-> "get_user", pc |-> "nodes", id |-> user_id])
        /\ UNCHANGED notStores

\* State::user_by_id, called by login and by get_user
UserByIdLockNodes ==
    \E r \in Req, h \in {"login", "get_user"} :
        /\ Acquire(r, h, "nodes", "shares")
        /\ UNCHANGED notStores

UserByIdLockShares ==
    \E r \in Req, h \in {"login", "get_user"} :
        /\ Acquire(r, h, "shares", "users")
        /\ UNCHANGED notStores

UserByIdLockUsers ==
    \E r \in Req, h \in {"login", "get_user"} :
        /\ Acquire(r, h, "users", "body")
        /\ UNCHANGED notStores

UserByIdBody ==
    \E r \in Req, h \in {"login", "get_user"} :
        /\ At(r, h, "body")
        /\ call' = [name |-> h]
        /\ ret' = user_by_id(nodes, shares, users, reqs[r].id)
        /\ Finish(r)
        /\ UNCHANGED <<pre, last>>
        /\ UNCHANGED notStores

GetInviteArrive ==
    \E r \in Req, path \in EmailPaths :
        /\ Start(r, [h |-> "get_invite", pc |-> "shares",
                     email_base64 |-> path])
        /\ UNCHANGED notStores

GetInviteLockShares ==
    \E r \in Req :
        /\ Acquire(r, "get_invite", "shares", "nodes")
        /\ UNCHANGED notStores

GetInviteLockNodes ==
    \E r \in Req :
        /\ Acquire(r, "get_invite", "nodes", "body")
        /\ UNCHANGED notStores

GetInviteBody ==
    \E r \in Req :
        /\ At(r, "get_invite", "body")
        /\ call' = [name |-> "get_invite"]
        /\ ret' = welcome(nodes, shares, reqs[r].email_base64)
        /\ Finish(r)
        /\ UNCHANGED <<pre, last>>
        /\ UNCHANGED notStores

InviteArrive ==
    \E r \in Req, invite \in PostedInvites :
        /\ Start(r, [h |-> "invite", pc |-> "shares", invite |-> invite])
        /\ UNCHANGED notStores

InviteLockShares ==
    \E r \in Req :
        /\ Acquire(r, "invite", "shares", "body")
        /\ UNCHANGED notStores

InviteBody ==
    \E r \in Req :
        /\ At(r, "invite", "body")
        /\ shares' = add_invite(shares, reqs[r].invite)
        /\ call' = [name |-> "invite"]
        /\ ret' = Created
        /\ pre' = Snapshot(nodes, branches, shares', users)
        /\ Finish(r)
        /\ UNCHANGED <<nodes, branches, users, sessions, webauthn, uploads, last>>

StartIntentArrive ==
    \E r \in Req, intent \in PostedIntents :
        /\ Start(r, [h |-> "start_invite_intent", pc |-> "shares",
                     intent |-> intent])
        /\ UNCHANGED notStores

\* start_invite_intent: nothing awaits between the lock and the return
StartIntentServe ==
    \E r \in Req :
        /\ At(r, "start_invite_intent", "shares")
        /\ guards["shares"] = Free
        /\ shares' = add_invite_intent(shares, reqs[r].intent)
        /\ call' = [name |-> "start_invite_intent"]
        /\ ret' = Created
        /\ pre' = Snapshot(nodes, branches, shares', users)
        /\ Finish(r)
        /\ UNCHANGED <<nodes, branches, users, sessions, webauthn, uploads, last>>

\* Shares::get_invite_intent, as get_invite_intent answers with it
intent_for(s, email) ==
    IF MapGet(s.intents, email) = None THEN NoInvite
    ELSE OkJson(MapGet(s.intents, email).v)

\* get_invite_intent decodes its path parameter first; one that does not
\* decode is answered at once
GetIntentArrive ==
    \E r \in Req, path \in EmailPaths :
        /\ FirstIdle(r)
        /\ IF decode(path) = None
           THEN /\ call' = [name |-> "get_invite_intent"]
                /\ ret' = NoInvite
                /\ UNCHANGED reqs
           ELSE /\ Arrive(r, [h |-> "get_invite_intent", pc |-> "shares",
                              email |-> decode(path).v])
                /\ NoResponse
        /\ UNCHANGED <<pre, guards, last>>
        /\ UNCHANGED notStores

GetIntentServe ==
    \E r \in Req :
        /\ At(r, "get_invite_intent", "shares")
        /\ guards["shares"] = Free
        /\ call' = [name |-> "get_invite_intent"]
        /\ ret' = intent_for(shares, reqs[r].email)
        /\ Finish(r)
        /\ UNCHANGED <<pre, last>>
        /\ UNCHANGED notStores

GetAllArrive ==
    \E r \in Req :
        /\ Start(r, [h |-> "get_all", pc |-> "nodes"])
        /\ UNCHANGED notStores

\* get_all: the nodes guard lives for the one statement
GetAllServe ==
    \E r \in Req :
        /\ At(r, "get_all", "nodes")
        /\ guards["nodes"] = Free
        /\ call' = [name |-> "get_all"]
        /\ ret' = OkJson(get_all(nodes))
        /\ Finish(r)
        /\ UNCHANGED <<pre, last>>
        /\ UNCHANGED notStores

NextLocks ==
    \/ SignupArrive \/ SignupLockNodes \/ SignupLockShares \/ SignupLockUsers
    \/ SignupAckIntent \/ SignupAddRoots \/ SignupAddShares
    \/ SignupDeleteInvite \/ SignupAddPriv \/ SignupAddPub
    \/ SignupAddCredentials
    \/ LoginArrive \/ LoginByEmail \/ GetUserArrive
    \/ UserByIdLockNodes \/ UserByIdLockShares \/ UserByIdLockUsers
    \/ UserByIdBody
    \/ GetInviteArrive \/ GetInviteLockShares \/ GetInviteLockNodes
    \/ GetInviteBody
    \/ InviteArrive \/ InviteLockShares \/ InviteBody
    \/ StartIntentArrive \/ StartIntentServe
    \/ GetIntentArrive \/ GetIntentServe
    \/ GetAllArrive \/ GetAllServe

SpecLocks == InitLocks /\ [][NextLocks]_vars

\* ------------------------------------------------------------------ C20
\* the order of the stores' guards
StoreOrder == <<"nodes", "shares", "users", "sessions", "webauthn", "uploads">>

Rank(name) == CHOOSE i \in 1 .. Len(StoreOrder) : StoreOrder[i] = name

Stores == {StoreOrder[i] : i \in 1 .. Len(StoreOrder)}

\* task r gets the guard of `name` in this step
Acquires(r, name) == guards[name] # r /\ guards'[name] = r

\* C20: a handler that holds more than one store guard at a time acquires
\* them in the order nodes, shares, users, sessions, webauthn, uploads: when a
\* task acquires a store's guard, every store guard it holds already is of
\* an earlier store.
C20_LockOrder ==
    [][\A r \in Req, name \in Stores :
         Acquires(r, name) =>
             \A held \in Stores : guards[held] = r => Rank(held) < Rank(name)]_vars

\* ------------------------------------------------------------------ C21
\* the guard task r is suspended on: the pc of a task that stands at a
\* lock().await names the store
WaitsFor(r, name) == reqs[r].h # "idle" /\ reqs[r].pc = name

\* a holds a guard b waits for, and b holds a guard a waits for
WaitCycle(a, b) ==
    /\ a # b
    /\ \E n \in Stores : guards[n] = a /\ WaitsFor(b, n)
    /\ \E n \in Stores : guards[n] = b /\ WaitsFor(a, n)

\* every step of a request that has arrived is taken if it stays possible
FairLocks ==
    /\ SpecLocks
    /\ WF_vars(SignupLockNodes) /\ WF_vars(SignupLockShares)
    /\ WF_vars(SignupLockUsers) /\ WF_vars(SignupAckIntent)
    /\ WF_vars(SignupAddRoots) /\ WF_vars(SignupAddShares)
    /\ WF_vars(SignupDeleteInvite) /\ WF_vars(SignupAddPriv)
    /\ WF_vars(SignupAddPub) /\ WF_vars(SignupAddCredentials)
    /\ WF_vars(LoginByEmail)
    /\ WF_vars(UserByIdLockNodes) /\ WF_vars(UserByIdLockShares)
    /\ WF_vars(UserByIdLockUsers) /\ WF_vars(UserByIdBody)
    /\ WF_vars(GetInviteLockShares) /\ WF_vars(GetInviteLockNodes)
    /\ WF_vars(GetInviteBody)
    /\ WF_vars(InviteLockShares) /\ WF_vars(InviteBody)
    /\ WF_vars(StartIntentServe) /\ WF_vars(GetIntentServe)
    /\ WF_vars(GetAllServe)

\* C21: deadlock freedom. No reachable state has two requests each holding a
\* store guard the other is waiting for, and under fair scheduling every
\* request that has arrived completes.
C21_DeadlockFree ==
    /\ [](\A a, b \in Req : ~WaitCycle(a, b))
    /\ \A r \in Req : (reqs[r] # Idle) ~> (reqs[r] = Idle)

\* ------------------------------------------------------------------ C22
\* the requests that read what a signup writes
Readers == {"login", "get_user", "get_invite", "get_all", "get_invite_intent"}

\* what the reading request q answers when it sees the stores st
Observed(q, st) ==
    IF q.h = "get_all" THEN OkJson(get_all(st.nodes))
    ELSE IF q.h = "get_invite" THEN welcome(st.nodes, st.shares, q.email_base64)
    ELSE IF q.h = "get_invite_intent" THEN intent_for(st.shares, q.email)
    ELSE IF q.pc = "email"
         THEN IF id_for_email(st.users, q.email) = None THEN Unauthorised
              ELSE NotServed
    ELSE user_by_id(st.nodes, st.shares, st.users, q.id)

\* C22: signup is atomic for the requests that read its stores. What a login,
\* get_user, get_invite, get_all or intent fetch answers, and the id a login
\* finds for its email, is what it would answer on the stores as the last
\* completed mutation left them: no effect of a signup that has not
\* completed is seen.
C22_SignupAtomic ==
    [][\A r \in Req :
         /\ (reqs[r].h \in Readers /\ reqs'[r] = Idle)
                => ret' = Observed(reqs[r], pre)
         /\ (At(r, "login", "email") /\ reqs'[r] # Idle /\ reqs'[r] # reqs[r])
                => Some(reqs'[r].id) = id_for_email(pre.users, reqs[r].email)]_vars

\* an intent fetch was answered with an intent while a signup held the nodes
\* guard and waited for the shares guard
C22_Witness ==
    /\ call.name = "get_invite_intent"
    /\ ret.tag = "OK"
    /\ \E r \in Req : At(r, "signup", "shares") /\ guards["nodes"] = r

\* ------------------------------------------------------------------ C23
\* task r returns from handler h in this step
Returns(r, h) == reqs[r].h = h /\ reqs'[r] = Idle

\* C23: when a signup with email e completes, no pinned invite is stored for
\* e and the pinned invites of the other emails are as they were before the
\* signup; an email gets a pinned invite only by an invite request for it;
\* and get_invite answers NoInvite for an email without a pinned invite.
C23_InviteRemoved ==
    [][\A r \in Req :
         /\ Returns(r, "signup") =>
               /\ reqs[r].email \notin DOMAIN shares'.invites
               /\ \A e \in Email \ {reqs[r].email} :
                    MapGet(shares'.invites, e) = MapGet(pre.shares.invites, e)
         /\ \A e \in Email :
               (e \notin DOMAIN shares.invites /\ e \in DOMAIN shares'.invites
                    /\ reqs'[r] # reqs[r])
                   => Returns(r, "invite") /\ reqs[r].invite.email = e
         /\ \A e \in Email :
               (Returns(r, "get_invite") /\ reqs[r].email_base64 = Encoded(e)
                    /\ e \notin DOMAIN shares.invites)
                   => ret' = NoInvite]_vars

\* a signup has removed the pinned invite that was stored for its email,
\* while the pinned invite of another email is stored
C23_Witness ==
    \E r \in Req :
        /\ At(r, "signup", "add_priv")
        /\ reqs[r].email \in DOMAIN pre.shares.invites
        /\ reqs[r].email \notin DOMAIN shares.invites
        /\ \E e \in Email \ {reqs[r].email} : e \in DOMAIN shares.invites

\* ------------------------------------------------------------------ C24
\* the intents stored in s
StoredIntents(s) == {s.intents[e] : e \in DOMAIN s.intents}

\* C24: a signup with email e and public identity P turns the unacknowledged
\* intent stored for e into the same intent with receiver P, and a get_user(S)
\* that is answered lists exactly the stored intents whose sender id is S.
C24_AckedIntentListed ==
    [][\A r \in Req :
         /\ (/\ Returns(r, "signup")
             /\ reqs[r].email \in DOMAIN pre.shares.intents
             /\ pre.shares.intents[reqs[r].email].receiver = None)
                => shares'.intents[reqs[r].email]
                     = [pre.shares.intents[reqs[r].email]
                          EXCEPT !.receiver = Some(reqs[r].user._pub)]
         /\ (Returns(r, "get_user") /\ ret'.tag = "OK")
                => /\ ret'.json.pending_invite_intents \subseteq StoredIntents(shares)
                   /\ \A i \in StoredIntents(shares) :
                        i \in ret'.json.pending_invite_intents
                            <=> i.sender.id = reqs[r].id]_vars

\* get_user of sender 1 was answered with an intent that the signup of
\* identity 2 acknowledged
C24_Witness ==
    /\ call.name = "get_user"
    /\ ret.tag = "OK"
    /\ ret.json._pub.id = 1
    /\ \E i \in ret.json.pending_invite_intents : i.receiver = Some([id |-> 2])

\* ------------------------------------------- finish_invite_intents_if_any
\* (src/src/main.rs) the handler under its guard, statement by statement: i
\* is the place in the batch, removed the results of delete_invite_intent it
\* prints

FinishIntentsArrive ==
    \E r \in Req, intents \in Batches(FinishInviteIntents) :
        /\ Start(r, [h |-> "finish_invite_intents_if_any", pc |-> "shares",
                     intents |-> intents, i |-> 1, removed |-> <<>>])
        /\ UNCHANGED notStores

FinishIntentsLockShares ==
    \E r \in Req :
        /\ Acquire(r, "finish_invite_intents_if_any", "shares", "add_share")
        /\ Len(shares.shares) + Len(reqs[r].intents) <= MaxShares
        /\ UNCHANGED notStores

FinishIntentsAddShare ==
    \E r \in Req :
        /\ At(r, "finish_invite_intents_if_any", "add_share")
        /\ reqs[r].i <= Len(reqs[r].intents)
        /\ shares' = add_share(shares, reqs[r].intents[reqs[r].i].share)
        /\ reqs' = [reqs EXCEPT ![r].pc = "delete_invite_intent"]
        /\ NoResponse
        /\ UNCHANGED <<nodes, branches, pre, users, sessions, webauthn, uploads,
                       guards, last>>

FinishIntentsDeleteIntent ==
    \E r \in Req :
        /\ At(r, "finish_invite_intents_if_any", "delete_invite_intent")
        /\ LET deleted == delete_invite_intent(
                              shares, reqs[r].intents[reqs[r].i].email)
           IN  /\ shares' = deleted.store
               /\ reqs' = [reqs EXCEPT
                             ![r].pc = "add_share",
                             ![r].i = @ + 1,
                             ![r].removed = Append(@, deleted.result)]
        /\ NoResponse
        /\ UNCHANGED <<nodes, branches, pre, users, sessions, webauthn, uploads,
                       guards, last>>

\* the batch is done; the handler returns and drops its guard
FinishIntentsReturn ==
    \E r \in Req :
        /\ At(r, "finish_invite_intents_if_any", "add_share")
        /\ reqs[r].i > Len(reqs[r].intents)
        /\ call' = [name |-> "finish_invite_intents_if_any",
                     removed |-> reqs[r].removed]
        /\ ret' = StatusOk
        /\ pre' = Snapshot(nodes, branches, shares, users)
        /\ Finish(r)
        /\ UNCHANGED <<last>>
        /\ UNCHANGED notStores

NextFinish ==
    \/ StartIntentArrive \/ StartIntentServe
    \/ FinishIntentsArrive \/ FinishIntentsLockShares \/ FinishIntentsAddShare
    \/ FinishIntentsDeleteIntent \/ FinishIntentsReturn
    \/ GetIntentArrive \/ GetIntentServe
    \/ SignupArrive \/ SignupLockNodes \/ SignupLockShares \/ SignupLockUsers
    \/ SignupAckIntent \/ SignupAddRoots \/ SignupAddShares
    \/ SignupDeleteInvite \/ SignupAddPriv \/ SignupAddPub
    \/ SignupAddCredentials
    \/ LoginArrive \/ LoginByEmail \/ GetUserArrive
    \/ UserByIdLockNodes \/ UserByIdLockShares \/ UserByIdLockUsers
    \/ UserByIdBody

SpecFinish == InitLocks /\ [][NextFinish]_vars

\* ------------------------------------------------------------------ C25
\* x is an element of the sequence seq
Contains(seq, x) == \E i \in 1 .. Len(seq) : seq[i] = x

\* C25: when finish_invite_intents returns, for each {email, share} of its
\* batch no intent is stored for email and share is among
\* all_shares_for_user of its sender and of its receiver; and what a
\* get_user or an intent fetch answers is what it would answer on the stores
\* as the last completed mutation left them, so that no request sees the
\* share without the intent's removal, or the reverse.
C25_FinishTogether ==
    [][\A r \in Req :
         /\ Returns(r, "finish_invite_intents_if_any") =>
               \A i \in 1 .. Len(reqs[r].intents) :
                   LET int == reqs[r].intents[i]
                   IN  /\ int.email \notin DOMAIN shares'.intents
                       /\ Contains(all_shares_for_user(shares', int.share.sender.id),
                                   int.share)
                       /\ Contains(all_shares_for_user(shares', int.share.receiver),
                                   int.share)
         /\ (Returns(r, "get_user") \/ Returns(r, "get_invite_intent"))
               => ret' = Observed(reqs[r], pre)]_vars

\* finish_invite_intents has returned after it removed a stored intent, and
\* its share is stored
C25_Witness ==
    /\ call.name = "finish_invite_intents_if_any"
    /\ \E i \in 1 .. Len(call.removed) : call.removed[i] # None
    /\ shares.shares # <<>>

\* ------------------------------------------------------------------ C26
\* the places of the shares of seq that user uid sent or receives
PlacesOf(seq, uid) ==
    {i \in 1 .. Len(seq) : seq[i].sender.id = uid \/ seq[i].receiver = uid}

\* the k-th smallest of the places
Place(places, k) ==
    CHOOSE i \in places : Cardinality({j \in places : j < i}) = k - 1

\* seq begins with the whole of prefix
StartsWith(seq, prefix) ==
    /\ Len(prefix) <= Len(seq)
    /\ \A i \in 1 .. Len(prefix) : seq[i] = prefix[i]

\* C26: all_shares_for_user(uid) returns the stored shares whose sender id is
\* uid or whose receiver is uid, each as often as it is stored and in the
\* order of insertion, and nothing else, and changes nothing; add_share
\* appends its share, and no operation of the store but purge removes one.
C26_AllSharesForUser ==
    /\ [](call.name = "all_shares_for_user" =>
            LET places == PlacesOf(pre.shares, call.user_id)
            IN  /\ Len(ret) = Cardinality(places)
                /\ \A k \in 1 .. Len(ret) : ret[k] = pre.shares[Place(places, k)]
                /\ shares = pre)
    /\ [](call.name = "add_share" =>
            shares.shares = Append(pre.shares, call.share))
    /\ [][StartsWith(shares'.shares, shares.shares)]_vars

\* the listing of a user returned both copies of a share stored twice, and
\* left out nothing
C26_Witness ==
    /\ call.name = "all_shares_for_user"
    /\ Len(pre.shares) = 2
    /\ pre.shares[1] = pre.shares[2]
    /\ Len(ret) = 2

\* ------------------------------------------------------------------ C27
\* task r, in login or get_user, takes a step
UserStep(r) == reqs[r].h \in {"login", "get_user"} /\ reqs'[r] # reqs[r]

MaxFile == 1
\* upload ids the object store hands out
MaxUpload == 2

FileId == 0 .. MaxFile
UploadId == 1 .. MaxUpload

ALG_AES_GCM == "aes-gcm"

\* Error::Io, answered when a call of the object store fails
Io == [tag |-> "Io"]

\* (StatusCode::CREATED, Json(x))
CreatedJson(x) == [tag |-> "Created", json |-> x]

\* Uploads::add that keeps an entry already stored for the file
uploads_add_once(u, file_id, upload_id, chunk_size) ==
    IF file_id \in DOMAIN u.uploads
    THEN [store |-> u, result |-> ALG_AES_GCM]
    ELSE [store |->
              [u EXCEPT !.uploads =
                  MapInsert(@, file_id,
                            [enc_alg |-> ALG_AES_GCM, upload_id |-> upload_id,
                             chunk_size |-> chunk_size, complete |-> FALSE])],
          result |-> ALG_AES_GCM]

\* Uploads::add
uploads_add(u, file_id, upload_id, chunk_size) ==
    [store |->
         [u EXCEPT !.uploads =
             MapInsert(@, file_id,
                       [enc_alg |-> ALG_AES_GCM, upload_id |-> upload_id,
                        chunk_size |-> chunk_size, complete |-> FALSE])],
     result |-> ALG_AES_GCM]

\* Uploads::get
uploads_get(u, file_id) == MapGet(u.uploads, file_id)

\* Uploads::mark_as_complete
mark_as_complete(u, file_id) ==
    IF file_id \in DOMAIN u.uploads
    THEN [store |-> [u EXCEPT !.uploads[file_id].complete = TRUE],
          result |-> TRUE]
    ELSE [store |-> u, result |-> FALSE]

\* UploadStatus
Ready == [tag |-> "Ready"]
Pending == [tag |-> "Pending"]

\* the status that get_upload_status answers for every tracked upload
upload_status_pending(upload) == Pending

\* the `if upload.complete { .. } else { .. }` of get_upload_status, when the
\* calls of the object store succeed
upload_status(upload) == IF upload.complete THEN Ready ELSE Pending

\* the file sizes of the uploads started: 20 MiB and 60 MiB, which
\* partition_file cuts in chunks of 5 MiB and of 10 MiB
UploadSizes == {MiBs(20), MiBs(60)}

\* State::new(); no upload has been started
InitUploads ==
    /\ nodes = <<>>
    /\ branches = <<>>
    /\ InitServer
    /\ call = NoCall
    /\ ret = Unit
    /\ pre = Unit
    /\ last = [f \in FileId |-> NotStarted]

\* everything but the uploads, the tasks, the guards and the histories
notUploads == <<nodes, branches, shares, users, sessions, webauthn>>

\* the handler of task r fails with Error::Io: `?` returns, the guards drop
FailIo(r) ==
    /\ call' = [name |-> reqs[r].h, file_id |-> reqs[r].file_id]
    /\ ret' = Io
    /\ Finish(r)

\* a request for an upload arrives and the first idle task takes it up
Upload(r, q) ==
    /\ FirstIdle(r)
    /\ Arrive(r, q)
    /\ NoResponse
    /\ Disturb
    /\ UNCHANGED <<guards, last>>

\* task r, holding the s3_client guard, goes on to `to`
Go(r, to) ==
    /\ reqs' = [reqs EXCEPT ![r].pc = to]
    /\ NoResponse
    /\ UNCHANGED <<uploads, guards, pre, last>>

\* POST /uploads/start/:file_id arrives; partition_file(req.file_size) plans
\* the chunks before any lock is taken
StartUploadArrive ==
    \E r \in Req, file_id \in FileId, file_size \in UploadSizes :
        \E plan \in partition_file(file_size) \ {Panic} :
            /\ Upload(r, [h |-> "start_upload", file_id |-> file_id,
                          plan |-> plan, upload_id |-> 0, pc |-> "s3_client"])
            /\ UNCHANGED uploads
            /\ UNCHANGED notUploads

\* let client = &state.s3_client.lock().await
StartUploadLockClient ==
    \E r \in Req :
        /\ Acquire(r, "start_upload", "s3_client", "gen_upload_id")
        /\ UNCHANGED uploads
        /\ UNCHANGED notUploads

\* s3_gen_upload_id(..): the object store hands out an upload id, or fails
\* the object store has created the multipart upload `id` under the key of
\* file f; kept in the note where a run opens one
Issue(f, id) ==
    pre' = IF "created" \in DOMAIN pre
           THEN [pre EXCEPT !.created[f] = @ \cup {id}]
           ELSE pre

StartUploadGenId ==
    \E r \in Req :
        /\ At(r, "start_upload", "gen_upload_id")
        /\ \/ /\ FailIo(r)
              /\ UNCHANGED <<uploads, pre, last>>
              /\ UNCHANGED notUploads
           \/ \E upload_id \in UploadId :
                /\ reqs' = [reqs EXCEPT ![r].upload_id = upload_id,
                                        ![r].pc = "presign"]
                /\ NoResponse
                /\ Issue(reqs[r].file_id, upload_id)
                /\ UNCHANGED <<uploads, guards, last>>
                /\ UNCHANGED notUploads

\* s3_gen_presigned_urls(.., plan.num_chunks): one url per chunk, or a
\* failure
StartUploadPresign ==
    \E r \in Req :
        /\ At(r, "start_upload", "presign")
        /\ \/ /\ FailIo(r)
              /\ UNCHANGED <<uploads, pre, last>>
           \/ Go(r, "uploads")
        /\ UNCHANGED notUploads

\* state.uploads.lock().await.add(file_id, upload_id, plan.chunk_size), the
\* guard of the uploads dropped at the end of the statement;
\* Ok((StatusCode::CREATED, Json(new_upload)))
StartUploadAdd ==
    \E r \in Req :
        LET q == reqs[r]
            added == uploads_add(uploads, q.file_id, q.upload_id,
                                 q.plan.chunk_size)
        IN  /\ At(r, "start_upload", "uploads")
            /\ Unlocked({"uploads"})
            /\ uploads' = added.store
            /\ call' = [name |-> "start_upload", file_id |-> q.file_id,
                         was |-> uploads_get(uploads, q.file_id)]
            /\ ret' = CreatedJson([id |-> q.upload_id,
                                   chunk_urls |-> q.plan.num_chunks,
                                   chunk_size |-> q.plan.chunk_size,
                                   enc_alg |-> added.result])
            /\ last' = [last EXCEPT ![q.file_id] = Started]
            /\ Finish(r)
            /\ UNCHANGED pre
            /\ UNCHANGED notUploads

\* POST /uploads/finish/:file_id arrives with payload.upload_id. The upload
\* id and the parts of the payload go to the object store and nowhere else
FinishUploadArrive ==
    \E r \in Req, file_id \in FileId, upload_id \in UploadId :
        /\ Upload(r, [h |-> "finish_upload", file_id |-> file_id,
                      upload_id |-> upload_id, pc |-> "s3_client"])
        /\ UNCHANGED uploads
        /\ UNCHANGED notUploads

\* let client = &state.s3_client.lock().await
FinishUploadLockClient ==
    \E r \in Req :
        /\ Acquire(r, "finish_upload", "s3_client", "complete")
        /\ UNCHANGED uploads
        /\ UNCHANGED notUploads

\* a finish_upload that marks the upload complete also when the call of the
\* object store has failed
FinishUploadComplete_marks ==
    \E r \in Req :
        /\ At(r, "finish_upload", "complete")
        /\ \/ /\ FailIo(r)
              /\ uploads' = mark_as_complete(uploads, reqs[r].file_id).store
              /\ UNCHANGED <<pre, last>>
           \/ Go(r, "uploads")
        /\ UNCHANGED notUploads

\* client.complete_multipart_upload()..send().await: done, or a failure
FinishUploadComplete ==
    \E r \in Req :
        /\ At(r, "finish_upload", "complete")
        /\ \/ /\ FailIo(r)
              /\ UNCHANGED <<uploads, pre, last>>
           \/ Go(r, "uploads")
        /\ UNCHANGED notUploads

\* state.uploads.lock().await.mark_as_complete(file_id), its result dropped;
\* Ok(StatusCode::OK)
FinishUploadMark ==
    \E r \in Req :
        LET f == reqs[r].file_id
        IN  /\ At(r, "finish_upload", "uploads")
            /\ Unlocked({"uploads"})
            /\ uploads' = mark_as_complete(uploads, f).store
            /\ call' = [name |-> "finish_upload", file_id |-> f,
                         upload_id |-> reqs[r].upload_id]
            /\ ret' = StatusOk
            /\ last' = [last EXCEPT ![f] = IF @ = Started THEN Finished ELSE @]
            /\ Finish(r)
            /\ UNCHANGED pre
            /\ UNCHANGED notUploads

\* GET /uploads/info/:file_id arrives
GetUploadStatusArrive ==
    \E r \in Req, file_id \in FileId :
        /\ Upload(r, [h |-> "get_upload_status", file_id |-> file_id,
                      upload |-> None, finished |-> FALSE, pc |-> "uploads"])
        /\ UNCHANGED uploads
        /\ UNCHANGED notUploads

\* state.uploads.lock().await.get(file_id).ok_or(Error::NotFound(file_id))?
\* .clone(), the guard dropped at the end of the statement. `finished` notes
\* whether the file's upload was started and then finished
GetUploadStatusGet ==
    \E r \in Req :
        LET f == reqs[r].file_id
            upload == uploads_get(uploads, f)
        IN  /\ At(r, "get_upload_status", "uploads")
            /\ Unlocked({"uploads"})
            /\ IF upload = None
               THEN /\ call' = [name |-> "get_upload_status", file_id |-> f]
                    /\ ret' = NotFound(f)
                    /\ Finish(r)
               ELSE /\ reqs' = [reqs EXCEPT ![r].upload = upload.v,
                                            ![r].finished = last[f] = Finished,
                                            ![r].pc = "s3_client"]
                    /\ NoResponse
                    /\ UNCHANGED guards
            /\ UNCHANGED <<uploads, pre, last>>
            /\ UNCHANGED notUploads

\* let client = &state.s3_client.lock().await
GetUploadStatusLockClient ==
    \E r \in Req :
        /\ Acquire(r, "get_upload_status", "s3_client", "status")
        /\ UNCHANGED uploads
        /\ UNCHANGED notUploads

\* the calls of the object store for the status, get_object presigned and
\* head_object or list_parts, fail or succeed;
\* Ok((StatusCode::OK, Json(info)))
GetUploadStatusAnswer ==
    \E r \in Req :
        LET q == reqs[r]
        IN  /\ At(r, "get_upload_status", "status")
            /\ \/ FailIo(r)
               \/ /\ call' = [name |-> "get_upload_status",
                               file_id |-> q.file_id]
                  /\ ret' = OkJson([status |-> upload_status(q.upload),
                                    enc_alg |-> q.upload.enc_alg,
                                    chunk_size |-> q.upload.chunk_size])
                  /\ Finish(r)
            /\ UNCHANGED <<uploads, pre, last>>
            /\ UNCHANGED notUploads

NextUploads ==
    \/ StartUploadArrive
    \/ StartUploadLockClient
    \/ StartUploadGenId
    \/ StartUploadPresign
    \/ StartUploadAdd
    \/ FinishUploadArrive
    \/ FinishUploadLockClient
    \/ FinishUploadComplete
    \/ FinishUploadMark
    \/ GetUploadStatusArrive
    \/ GetUploadStatusGet
    \/ GetUploadStatusLockClient
    \/ GetUploadStatusAnswer
    \/ PurgeStart
    \/ PurgeNodes
    \/ PurgeShares
    \/ PurgeUsers
    \/ PurgeSessions
    \/ PurgeWebauthn
    \/ PurgeUploads

SpecUploads == InitUploads /\ [][NextUploads]_vars

\* ------------------------------------------------------------------ C29
\* task r, in get_upload_status, reads the uploads
StatusRead(r) == At(r, "get_upload_status", "uploads") /\ reqs'[r] # reqs[r]

\* task r, in get_upload_status, is through with the object store
StatusAnswered(r) == At(r, "get_upload_status", "status") /\ reqs'[r] = Idle

\* C29: get_upload_status(f) answers NotFound when f is not tracked; for a
\* tracked f it goes by the entry stored for f, and unless a call of the
\* object store fails, which it answers with Io, its status is Ready when
\* the complete flag of the entry is true and Pending when it is false. A
\* file whose start_upload answered Created and whose finish_upload then
\* answered OK, with no start_upload for it and no purge of the uploads
\* since that start, is tracked and complete, so that get_upload_status
\* answers Ready for it, or Io.
C29_UploadStatus ==
    [][\A r \in Req :
         LET f == reqs[r].file_id
         IN  /\ StatusRead(r) =>
                  IF f \in DOMAIN uploads.uploads
                  THEN /\ reqs'[r] # Idle
                       /\ reqs'[r].upload = uploads.uploads[f]
                  ELSE reqs'[r] = Idle /\ ret' = NotFound(f)
             /\ (StatusRead(r) /\ last[f] = Finished) =>
                  /\ f \in DOMAIN uploads.uploads
                  /\ uploads.uploads[f].complete
                  /\ reqs'[r].finished
             /\ StatusAnswered(r) =>
                  \/ ret' = Io
                  \/ /\ ret'.tag = "OK"
                     /\ reqs[r].upload.complete => ret'.json.status.tag = "Ready"
                     /\ ~reqs[r].upload.complete =>
                          ret'.json.status.tag = "Pending"
                     /\ reqs[r].finished => ret'.json.status.tag = "Ready"]_vars

\* the status of a file whose upload was started and then finished was
\* answered, and it was Ready
C29_Witness ==
    /\ call.name = "get_upload_status"
    /\ ret.tag = "OK"
    /\ ret.json.status.tag = "Ready"
    /\ last[call.file_id] = Finished
    /\ uploads.uploads[call.file_id].complete

\* ------------------------------------------------------------------ C30
\* the entry stored for file f, None when f is not tracked
Tracked(u, f) == MapGet(u.uploads, f)

\* C30: a start_upload(f) that answers Created leaves for f the one entry
\* with complete = false, enc_alg = "aes-gcm", the upload id the object store
\* handed out, which is also the id answered, and the chunk size of the plan,
\* whatever was stored for f before, and leaves the entries of the other
\* files as they were; the complete flag of an entry goes from false to true
\* only in the step in which a finish_upload for its file, whose
\* complete_multipart_upload call succeeded, answers OK.
C30_StartUpload ==
    [][/\ \A r \in Req :
            (Returns(r, "start_upload") /\ ret'.tag = "Created") =>
                LET f == reqs[r].file_id
                IN  /\ Tracked(uploads', f) =
                         Some([enc_alg |-> "aes-gcm",
                               upload_id |-> reqs[r].upload_id,
                               chunk_size |-> reqs[r].plan.chunk_size,
                               complete |-> FALSE])
                    /\ reqs[r].upload_id \in UploadId
                    /\ ret'.json.id = reqs[r].upload_id
                    /\ ret'.json.chunk_size = reqs[r].plan.chunk_size
                    /\ \A g \in FileId \ {f} :
                         Tracked(uploads', g) = Tracked(uploads, g)
       /\ \A f \in FileId :
            (/\ Tracked(uploads, f) # None
             /\ ~Tracked(uploads, f).v.complete
             /\ Tracked(uploads', f) # None
             /\ Tracked(uploads', f).v.complete) =>
                \E r \in Req :
                    /\ At(r, "finish_upload", "uploads")
                    /\ reqs[r].file_id = f
                    /\ reqs'[r] = Idle
                    /\ ret' = StatusOk]_vars

\* a start_upload answered Created for a file whose earlier upload, with
\* chunks of another size, was complete: the entry is the new one
C30_Witness ==
    /\ call.name = "start_upload"
    /\ ret.tag = "Created"
    /\ call.was # None
    /\ call.was.v.complete
    /\ call.was.v.chunk_size # ret.json.chunk_size
    /\ uploads.uploads[call.file_id].chunk_size = ret.json.chunk_size
    /\ ~uploads.uploads[call.file_id].complete

\* -------------------------------------------------------------- the purge
\* stores that hold something of every kind: a root, a share, an invite and
\* an intent, the records of a user, a session token, a pending
\* registration, an auth challenge and a passkey
HeldNodes == addEach(<<>>, <<>>, <<[id |-> 0, parent_id |-> NO_PARENT_ID]>>)

HeldShares ==
    add_share(
        add_invite(
            add_invite_intent(SharesNew,
                              [email |-> 1, sender |-> [id |-> 1],
                               receiver |-> None]),
            [email |-> 1, sender |-> [id |-> 1]]),
        [sender |-> [id |-> 1], receiver |-> 1])

HeldUsers ==
    add_credentials(add_pub(add_priv(UsersNew, 1, LockedPriv), 1, [id |-> 1]),
                    1, 1)

HeldSessions == add_token(SessionsNew, 1, 1)

HeldWebauthn ==
    add_auth_challenge(
        add_passkey(
            add_registration(WebauthnNew, 1,
                             [challenge |-> 1, prf_salt |-> PRF_SALT]),
            1, PRF_SALT,
            [id |-> 1, attestation |-> 1,
             client_data_json |-> [challenge |-> 1]]),
        [id |-> 1, challenge |-> 1, prf_salt |-> Some(PRF_SALT)])

HeldUploads == uploads_add(UploadsNew, 0, 1, 5 * MiB).store

\* the server as State::new() leaves it, or with the stores above filled by
\* requests served before; no purge has been taken up
InitPurge ==
    /\ \/ /\ nodes = <<>>
          /\ branches = <<>>
          /\ shares = SharesNew
          /\ users = UsersNew
          /\ sessions = SessionsNew
          /\ webauthn = WebauthnNew
          /\ uploads = UploadsNew
       \/ /\ nodes = HeldNodes.nodes
          /\ branches = HeldNodes.branches
          /\ shares = HeldShares
          /\ users = HeldUsers
          /\ sessions = HeldSessions
          /\ webauthn = HeldWebauthn
          /\ uploads = HeldUploads
    /\ reqs = [r \in Req |-> Idle]
    /\ guards = [s \in StoreNames |-> Free]
    /\ call = NoCall
    /\ ret = Unit
    /\ pre = [alone |-> FALSE, held |-> {}]
    /\ last = <<>>

\* purges, and next to them the signups, which fill the nodes, the shares
\* and the users
NextPurge ==
    \/ Signup
    \/ PurgeStart
    \/ PurgeNodes
    \/ PurgeShares
    \/ PurgeUsers
    \/ PurgeSessions
    \/ PurgeWebauthn
    \/ PurgeUploads

SpecPurge == InitPurge /\ [][NextPurge]_vars

\* ------------------------------------------------------------------ C28
\* nothing is stored
AllEmpty ==
    /\ DOMAIN nodes = {}
    /\ DOMAIN branches = {}
    /\ Len(shares.shares) = 0
    /\ DOMAIN shares.invites = {}
    /\ DOMAIN shares.intents = {}
    /\ DOMAIN users.credentials = {}
    /\ DOMAIN users.public_keys = {}
    /\ DOMAIN users.private_keys = {}
    /\ DOMAIN sessions.tokens = {}
    /\ DOMAIN webauthn.pending_registrations = {}
    /\ DOMAIN webauthn.auth_challenges = {}
    /\ DOMAIN webauthn.passkeys = {}
    /\ DOMAIN uploads.uploads = {}

\* C28: when a purge returns and no other request has been in service since
\* it arrived, every store is empty: no nodes, no branches entries, no
\* shares, invites or intents, no credentials or key records, no session
\* tokens, no pending registrations, auth challenges or passkeys, and no
\* tracked uploads.
C28_PurgeEmpties ==
    [][\A r \in Req : (Returns(r, "purge") /\ pre.alone) => AllEmpty']_vars

\* a purge that found something in every store has returned, with no other
\* request in service since it arrived
C28_Witness ==
    /\ call = [name |-> "purge", store |-> "uploads"]
    /\ pre.alone
    /\ pre.held = StoreNames \ {"s3_client"}
    /\ AllEmpty

\* ------------------------------------------------------------------ C31
\* task r, in start_upload or finish_upload, takes a step
UploadStep(r) ==
    reqs[r].h \in {"start_upload", "finish_upload"} /\ reqs'[r] # reqs[r]

\* task r stands at a call of the object store
AtObjectStore(r) ==
    \/ At(r, "start_upload", "gen_upload_id")
    \/ At(r, "start_upload", "presign")
    \/ At(r, "finish_upload", "complete")

\* C31: a start_upload or finish_upload is answered Io only at a call of the
\* object store, create_multipart_upload, the presigning or
\* complete_multipart_upload, and then returns at once; neither that step
\* nor any step the handler took before it changes the uploads: no entry is
\* added and no complete flag is set.
C31_IoLeavesUploads ==
    [][\A r \in Req :
         UploadStep(r) =>
           /\ ret' = Io => (AtObjectStore(r) /\ reqs'[r] = Idle)
           /\ reqs[r].pc # "uploads" => uploads' = uploads
           /\ reqs[r].pc = "uploads" => ret' # Io]_vars

\* the finish_upload of a tracked, incomplete upload was answered Io, and
\* the upload is still incomplete
C31_Witness ==
    /\ call.name = "finish_upload"
    /\ ret = Io
    /\ call.file_id \in DOMAIN uploads.uploads
    /\ ~uploads.uploads[call.file_id].complete

\* ------------------------------------------------------------------ C32
\* the node store with a note of the ids that deletes have removed
InitLifecycle ==
    /\ nodes = <<>>
    /\ branches = <<>>
    /\ call = NoCall
    /\ ret = Unit
    /\ pre = Store(<<>>, <<>>)
    /\ InitServer
    /\ last = [removed |-> {}]

SpecLifecycle == InitLifecycle /\ [][NextNodes]_vars

\* C32: once a delete has removed a node id, no node is stored under that id
\* again, whatever calls of add, move_to and delete follow.
C32_DeletedForGood == \A id \in last.removed : id \notin DOMAIN nodes

\* ------------------------------------------------------------------ C33
\* C33: an add whose id is already stored leaves nodes and branches as they
\* were, and in every reachable state a stored id that stands in the child
\* list of p has parent_id p.
C33_CreateOnly ==
    /\ (call.name = "add" /\ call.id \in DOMAIN pre.nodes) => Unchanged
    /\ \A p \in DOMAIN branches :
         \A i \in 1 .. Len(branches[p]) :
            branches[p][i] \in DOMAIN nodes => nodes[branches[p][i]] = p

\* ------------------------------------------------------------------ C34
\* C34: in every store state that add, move_to and delete reach, every call
\* of move_to returns: its upward walk from new_parent ends at NO_PARENT_ID,
\* at id, or at an id that is not stored.
C34_MoveTerminates == call.name = "move_to" => ret # Diverges

\* ------------------------------------------------------------------ C35
\* an add of an id that is not stored
AddFresh == Add /\ call'.id \notin DOMAIN nodes

\* the node store with add called only for ids that are not stored
NextFresh == AddFresh \/ Delete \/ DeleteList \/ MoveTo \/ Return

SpecFresh == InitNodes /\ [][NextFresh]_vars

\* the elements of the child list bs[p]
Listed(bs, p) == {bs[p][i] : i \in 1 .. Len(bs[p])}

\* every child list holds precisely the stored nodes with that parent_id,
\* each once
ExactIndex ==
    /\ \A p \in DOMAIN branches :
         /\ Listed(branches, p) = {n \in DOMAIN nodes : nodes[n] = p}
         /\ Cardinality(Listed(branches, p)) = Len(branches[p])
    /\ \A n \in DOMAIN nodes : nodes[n] \in DOMAIN branches

\* the last call was delete(id) and id is neither a key of branches nor an
\* element of a child list
Gone ==
    /\ call.id \notin DOMAIN branches
    /\ \A p \in DOMAIN branches : call.id \notin Listed(branches, p)

\* C35: with add called only for ids that are not stored, after any calls of
\* add, move_to and delete every child list branches[p] holds precisely the
\* stored nodes whose parent_id is p, each once, and after delete(id) the id
\* is neither a key of branches nor an element of a child list.
C35_ExactIndex ==
    /\ ExactIndex
    /\ (call.name = "delete" /\ call.id \in NodeId) => Gone

\* C35 for the delete of a stored node: the index is exact in every reachable
\* state, and after delete(id) of an id that was stored the id is neither a
\* key of branches nor an element of a child list.
C35_ExactIndexStored ==
    /\ ExactIndex
    /\ (call.name = "delete" /\ call.id \in DOMAIN pre.nodes) => Gone

\* a delete of a stored node that had children returned it and its subtree,
\* and nodes stay stored under other parents
C35_Witness ==
    /\ call.name = "delete"
    /\ call.id \in DOMAIN pre.nodes
    /\ call.id \in DOMAIN pre.branches
    /\ pre.branches[call.id] # <<>>
    /\ nodes # <<>>
    /\ ExactIndex
    /\ Gone

\* ------------------------------------------------------------------ C36
\* what signups leave in the stores: root nodes, shares, and the user records
NodesKept == DOMAIN nodes # {}
SharesKept == Len(shares.shares) > 0
UsersKept ==
    \/ DOMAIN users.credentials # {}
    \/ DOMAIN users.public_keys # {}
    \/ DOMAIN users.private_keys # {}

\* C36: when a purge returns, the stores hold the effects of the signups
\* served next to it whole or not at all: never root nodes or shares of a
\* signup without user records.
C36_PurgeAtomic ==
    [][\A r \in Req :
          Returns(r, "purge") => ((NodesKept' \/ SharesKept') => UsersKept')]_vars

\* ------------------------------------------------------------------ C37
\* the upload coordinator with a note of the multipart uploads the object
\* store has created under each key
InitObjects ==
    /\ nodes = <<>>
    /\ branches = <<>>
    /\ InitServer
    /\ call = NoCall
    /\ ret = Unit
    /\ pre = [created |-> [f \in FileId |-> {}]]
    /\ last = [f \in FileId |-> NotStarted]

\* start_upload and finish_upload requests
NextObjects ==
    \/ StartUploadArrive
    \/ StartUploadLockClient
    \/ StartUploadGenId
    \/ StartUploadPresign
    \/ StartUploadAdd
    \/ FinishUploadArrive
    \/ FinishUploadLockClient
    \/ FinishUploadComplete
    \/ FinishUploadMark

SpecObjects == InitObjects /\ [][NextObjects]_vars

\* C37: when a finish_upload has answered OK for a multipart upload that the
\* object store created under the key of file f, and the entry of f is
\* complete, the upload_id completed at the object store is the upload_id of
\* that entry.
C37_CompleteTracked ==
    (/\ call.name = "finish_upload"
     /\ ret = StatusOk
     /\ call.upload_id \in pre.created[call.file_id]
     /\ call.file_id \in DOMAIN uploads.uploads
     /\ uploads.uploads[call.file_id].complete)
        => uploads.uploads[call.file_id].upload_id = call.upload_id

\* ------------------------------------------------------------------ C38
\* self.passkeys.values().filter(|&pk| pk.user_id == user_id).cloned()
\* .collect(): the passkeys in the order the map yields them, here as a set
passkeys_for_user(w, user_id) ==
    {w.passkeys[c] : c \in {d \in DOMAIN w.passkeys :
                                w.passkeys[d].user_id = user_id}}

\* C38: a finish_reg by user v leaves every passkey stored for another user
\* u as it was: the same user_id and public key under the same credential
\* id, and passkeys_for_user(u) still holds it.
C38_PasskeyOwner ==
    call.name = "webauthn_finish_reg" =>
        \A c \in DOMAIN pre.passkeys :
            pre.passkeys[c].user_id # call.user_id =>
                /\ c \in DOMAIN webauthn.passkeys
                /\ webauthn.passkeys[c] = pre.passkeys[c]
                /\ pre.passkeys[c] \in
                       passkeys_for_user(webauthn, pre.passkeys[c].user_id)

\* ------------------------------------------------------------------ C39
\* C39: for every i64 file_size for which partition_file gives start_upload a
\* plan, the number of part URLs asked of s3_gen_presigned_urls,
\* plan.num_chunks, is ceil(max(file_size, 0) / chunk_size): 0 for
\* file_size <= 0, and ceil(file_size / chunk_size) otherwise.
C39_PartUrls ==
    (call.name = "partition_file" /\ ret # Panic) =>
        IF IsNeg(call.file_size)
        THEN IsZero(ret.num_chunks)
        ELSE IsCeil(ret.num_chunks, call.file_size, ret.chunk_size \div MiB)

====
